---- MODULE Spec2Model ----
(***************************************************************************)
(* mapgen: the block grid (core/src/map.rs), the radial kernel and the     *)
(* older Map::update (src/map.rs), and the post-processing passes          *)
(* (src/post_processing.rs, src/generator.rs).                             *)
(*                                                                         *)
(* A map is a record [w, h, grid, chunks_edited]; grid is a function on    *)
(* <<x, y>> with 0 <= x < w and 0 <= y < h, as Array2 indexed [[x, y]].    *)
(* Every specification constructs a map (and the call's other inputs) in   *)
(* Init and then makes calls on it; `old` is the map before the last call  *)
(* and `call` records the last call's arguments, locals and return value.  *)
(* `gen` holds the other fields of a Generator (walker, rnd) and the place *)
(* generate_map has reached; `cfg` is the RandomDistConfig of the editor.  *)
(* A specification without a generator or a config leaves them "none".    *)
(***************************************************************************)
EXTENDS Integers, Sequences, FiniteSets, TLC

VARIABLES map, old, call, gen, cfg

vars == <<map, old, call, gen, cfg>>

----------------------------------------------------------------------------
(* Bounds of the model *)

\* grid of the area / kernel-application specification
GridW == 3
GridH == 3
\* number of shifts of the block pattern the constructed grids are painted with
NumShifts == 2
\* largest kernel size constructed (sizes are odd)
MaxKernelSize == 7
\* largest component of a kernel's limiting offset
MaxOffset == 4
\* the width and the height of the map of the call sequences: two chunks
\* wide, the second one narrower than CHUNK_SIZE
ChunkW == 6
ChunkH == 3
\* the longest sequence of calls on that map
MaxCalls == 3
\* the largest size get_unique_radii_sqr is called with
MaxRadiiSize == 11

\* side of the square grid of the post-processing specification
PostSize == 4
\* largest max_distance of the distance fill, in halves
MaxDistanceX2 == 4
\* the long and the short side of the grids of the skip pass
SkipLong == 13
SkipShort == 5
\* the largest skip length bound and the largest min_spacing_sqr
MaxLength == 6
MaxSpacingSqr == 4
\* the width of the row the selection loop's records lie on
SelectWidth == 17
\* the largest min_freeze_size
MaxFreezeSize == 2
\* a probability slider stops at k / SliderStops, 0 <= k <= SliderStops
SliderStops == 2
\* the most entries of a distribution and the largest denominator followed
MaxEntries == 2
MaxDen == 12
\* side of the generator's square map (300 in Generator::new)
GenSize == 12
\* seeds are 0 .. MaxSeed; the random source has RndRange states
MaxSeed == 3
RndRange == 16
\* the most steps a walker makes, and the largest max_steps
MaxStepCount == 4

----------------------------------------------------------------------------
(* core/src/map.rs: blocks *)

CHUNK_SIZE == 5

BlockType ==
    {"Empty", "EmptyReserved", "Hookable", "Freeze", "Spawn", "Start", "Finish", "Platform"}

GameTile == {"Hookable", "Freeze", "Empty"}

to_game_tile(b) ==
    CASE b \in {"Platform", "Hookable"} -> "Hookable"
      [] b \in {"Empty", "EmptyReserved"} -> "Empty"
      [] b = "Freeze" -> "Freeze"
      [] OTHER -> "Empty"

is_solid(b) == b \in {"Hookable", "Platform"}

is_freeze(b) == b = "Freeze"

Overwrite ==
    {"Force", "ReplaceSolidFreeze", "ReplaceSolidOnly", "ReplaceEmptyOnly",
     "ReplaceNonSolid", "ReplaceNonSolidForce"}

\* mutant: ReplaceSolidOnly decided by is_solid, which also holds of Platform
will_override_SolidByCategory(pol, btype) ==
    CASE pol = "Force" -> TRUE
      [] pol = "ReplaceSolidFreeze" -> btype \in {"Hookable", "Freeze"}
      [] pol = "ReplaceSolidOnly" -> is_solid(btype)
      [] pol = "ReplaceEmptyOnly" -> btype = "Empty"
      [] pol = "ReplaceNonSolid" -> btype \in {"Freeze", "Empty"}
      [] pol = "ReplaceNonSolidForce" -> btype \in {"Freeze", "Empty", "EmptyReserved"}

\* mutant: ReplaceNonSolid takes the reserved empty block for an empty one
will_override_ReservedAsEmpty(pol, btype) ==
    CASE pol = "Force" -> TRUE
      [] pol = "ReplaceSolidFreeze" -> btype \in {"Hookable", "Freeze"}
      [] pol = "ReplaceSolidOnly" -> btype = "Hookable"
      [] pol = "ReplaceEmptyOnly" -> btype = "Empty"
      [] pol = "ReplaceNonSolid" -> btype \in {"Freeze", "Empty", "EmptyReserved"}
      [] pol = "ReplaceNonSolidForce" -> btype \in {"Freeze", "Empty", "EmptyReserved"}

will_override(pol, btype) ==
    CASE pol = "Force" -> TRUE
      [] pol = "ReplaceSolidFreeze" -> btype \in {"Hookable", "Freeze"}
      [] pol = "ReplaceSolidOnly" -> btype = "Hookable"
      [] pol = "ReplaceEmptyOnly" -> btype = "Empty"
      [] pol = "ReplaceNonSolid" -> btype \in {"Freeze", "Empty"}
      [] pol = "ReplaceNonSolidForce" -> btype \in {"Freeze", "Empty", "EmptyReserved"}

----------------------------------------------------------------------------
(* src/map.rs: the kernel *)

\* mutant: the centre is rounded up
get_kernel_center_RoundedUp(size) == (size + 1) \div 2

get_kernel_center(size) == (size - 1) \div 2

\* mutant: the largest radius is taken from the size, not from the centre
get_valid_radius_bounds_BySize(size) ==
    LET min_radius == ((size - 1) \div 2) * ((size - 1) \div 2)
        max_radius == size * size + size * size
    IN  <<min_radius, max_radius>>

get_valid_radius_bounds(size) ==
    LET center == get_kernel_center(size)
        min_radius == ((size - 1) \div 2) * ((size - 1) \div 2)
        max_radius == center * center + center * center
    IN  <<min_radius, max_radius>>

is_valid_radius(size, radius_sqr) ==
    LET b == get_valid_radius_bounds(size)
    IN  b[1] <= radius_sqr /\ radius_sqr <= b[2]

abs_diff(a, b) == IF a >= b THEN a - b ELSE b - a

\* Array2<bool> of size x size, indexed [[x, y]]
get_kernel_vector(size, max_distance_sqr) ==
    LET center == get_kernel_center(size)
    IN  [p \in (0 .. size - 1) \X (0 .. size - 1) |->
            abs_diff(p[1], center) * abs_diff(p[1], center)
              + abs_diff(p[2], center) * abs_diff(p[2], center) <= max_distance_sqr]

KernelNew(size, limiting_offset) ==
    LET max_distance_sqr ==
            limiting_offset[1] * limiting_offset[1] + limiting_offset[2] * limiting_offset[2]
    IN  [size |-> size,
         limiting_offset |-> limiting_offset,
         max_distance_sqr |-> max_distance_sqr,
         vector |-> get_kernel_vector(size, max_distance_sqr)]

\* the (x, y) of the two loops from x on, in the order they are visited
RECURSIVE RadiiOffsets(_, _)
RadiiOffsets(x, max_offset) ==
    IF x > max_offset
    THEN <<>>
    ELSE [i \in 1 .. max_offset - x + 1 |-> <<x, x + i - 1>>] \o RadiiOffsets(x + 1, max_offset)

\* mutant: a radius is pushed whether or not it is in the list
PushesRadius_Again(valid_sqr_distances, distance_sqr, min_radius_sqr) ==
    distance_sqr >= min_radius_sqr

\* the condition of the push
PushesRadius(valid_sqr_distances, distance_sqr, min_radius_sqr) ==
    /\ distance_sqr >= min_radius_sqr
    /\ ~\E i \in 1 .. Len(valid_sqr_distances) : valid_sqr_distances[i] = distance_sqr

\* the body of the loops over the offsets still to visit
RECURSIVE PushRadii(_, _, _)
PushRadii(valid_sqr_distances, offsets, min_radius_sqr) ==
    IF offsets = <<>>
    THEN valid_sqr_distances
    ELSE PushRadii(IF PushesRadius(valid_sqr_distances,
                                   Head(offsets)[1] * Head(offsets)[1]
                                     + Head(offsets)[2] * Head(offsets)[2],
                                   min_radius_sqr)
                   THEN Append(valid_sqr_distances,
                               Head(offsets)[1] * Head(offsets)[1]
                                 + Head(offsets)[2] * Head(offsets)[2])
                   ELSE valid_sqr_distances,
                   Tail(offsets), min_radius_sqr)

get_unique_radii_sqr(size) ==
    LET center == get_kernel_center(size)
        max_offset == size - center - 1
        min_radius_sqr == get_valid_radius_bounds(size)[1]
    IN  PushRadii(<<>>, RadiiOffsets(0, max_offset), min_radius_sqr)

----------------------------------------------------------------------------
(* core/src/map.rs: Map *)

div_ceil(a, b) == (a + b - 1) \div b

Cells(w, h) == (0 .. w - 1) \X (0 .. h - 1)

\* the cells in the order the loops and Array2's iterators visit them: x outermost
CellSeq(w, h) == [i \in 1 .. w * h |-> <<(i - 1) \div h, (i - 1) % h>>]

MapNew(width, height) ==
    [w |-> width,
     h |-> height,
     grid |-> [p \in Cells(width, height) |-> "Empty"],
     chunks_edited |->
        [c \in Cells(div_ceil(width, CHUNK_SIZE), div_ceil(height, CHUNK_SIZE)) |-> FALSE]]

MapClear(m) == [m EXCEPT !.grid = [p \in DOMAIN m.grid |-> "Empty"]]

\* mutant: the two coordinates are swapped
pos_to_chunk_pos_Swapped(pos) == <<pos[2] \div CHUNK_SIZE, pos[1] \div CHUNK_SIZE>>

pos_to_chunk_pos(pos) == <<pos[1] \div CHUNK_SIZE, pos[2] \div CHUNK_SIZE>>

\* mutant: the bounds test is off by one
pos_in_bounds_Inclusive(m, pos) == pos[1] <= m.w /\ pos[2] <= m.h

pos_in_bounds(m, pos) == pos[1] < m.w /\ pos[2] < m.h

\* mutant: the right and lower edges are tested with the offset, not the extent
KernelExceeds_ByOffset(m, pos, size) ==
    LET offset == size \div 2
    IN  \/ pos[1] < offset
        \/ pos[2] < offset
        \/ pos[1] + offset > m.w
        \/ pos[2] + offset > m.h

\* the four bounds tests of apply_kernel / update
KernelExceeds(m, pos, size) ==
    LET offset == size \div 2
        extend == size - offset
    IN  \/ pos[1] < offset
        \/ pos[2] < offset
        \/ pos[1] + extend > m.w
        \/ pos[2] + extend > m.h

\* the kernel cell lying over grid cell p, when the kernel's root is root_pos
KernelCellOver(root_pos, p) == <<p[1] - root_pos[1], p[2] - root_pos[2]>>

UnderActive(k, root_pos, p) ==
    /\ KernelCellOver(root_pos, p) \in DOMAIN k.vector
    /\ k.vector[KernelCellOver(root_pos, p)]

\* mutant: the block is matched by its gameplay category
KernelNewType_ByCategory(current_type, block_type) ==
    IF to_game_tile(current_type) \in {"Hookable", "Freeze"} THEN block_type ELSE current_type

\* the match on current_type in apply_kernel: the block an active cell holds afterwards
KernelNewType(current_type, block_type) ==
    IF current_type \in {"Hookable", "Freeze"} THEN block_type ELSE current_type

\* returns <<map, success>>
apply_kernel(m, pos, k, block_type) ==
    IF KernelExceeds(m, pos, k.size)
    THEN <<m, FALSE>>
    ELSE LET offset == k.size \div 2
             root_pos == <<pos[1] - offset, pos[2] - offset>>
         IN  <<[m EXCEPT
                  !.grid = [p \in DOMAIN m.grid |->
                              IF UnderActive(k, root_pos, p)
                              THEN KernelNewType(m.grid[p], block_type)
                              ELSE m.grid[p]],
                  !.chunks_edited = [c \in DOMAIN m.chunks_edited |->
                              \/ m.chunks_edited[c]
                              \/ \E p \in DOMAIN m.grid :
                                    /\ UnderActive(k, root_pos, p)
                                    /\ pos_to_chunk_pos(p) = c]],
               TRUE>>

\* the cells of the slice s![top_left.x..=bot_right.x, top_left.y..=bot_right.y];
\* a range whose end lies before its start is empty
Area(top_left, bot_right) ==
    (top_left[1] .. bot_right[1]) \X (top_left[2] .. bot_right[2])

\* the grid cells the slice views
AreaCells(m, top_left, bot_right) == {p \in DOMAIN m.grid : p \in Area(top_left, bot_right)}

AreaInBounds(m, top_left, bot_right) ==
    pos_in_bounds(m, top_left) /\ pos_in_bounds(m, bot_right)

\* Result<bool, &str>: <<"Ok", value>> or <<"Err", message>>
check_area_exists(m, top_left, bot_right, value) ==
    IF ~AreaInBounds(m, top_left, bot_right)
    THEN <<"Err", "checking area out of bounds">>
    ELSE <<"Ok", \E p \in AreaCells(m, top_left, bot_right) : m.grid[p] = value>>

check_area_all(m, top_left, bot_right, value) ==
    IF ~AreaInBounds(m, top_left, bot_right)
    THEN <<"Err", "checking area out of bounds">>
    ELSE <<"Ok", \A p \in AreaCells(m, top_left, bot_right) : m.grid[p] = value>>

count_occurence_in_area(m, top_left, bot_right, value) ==
    IF ~AreaInBounds(m, top_left, bot_right)
    THEN <<"Err", "checking area out of bounds">>
    ELSE <<"Ok", Cardinality({p \in AreaCells(m, top_left, bot_right) : m.grid[p] = value})>>

set_area(m, top_left, bot_right, value, overide) ==
    IF ~AreaInBounds(m, top_left, bot_right)
    THEN m
    ELSE [m EXCEPT
            !.grid = [p \in DOMAIN m.grid |->
                        IF p \in Area(top_left, bot_right) /\ will_override(overide, m.grid[p])
                        THEN value
                        ELSE m.grid[p]],
            !.chunks_edited = [c \in DOMAIN m.chunks_edited |->
                        \/ m.chunks_edited[c]
                        \/ \E p \in AreaCells(m, top_left, bot_right) :
                              /\ will_override(overide, m.grid[p])
                              /\ pos_to_chunk_pos(p) = c]]

set_area_border(m, top_left, bot_right, value, overwrite) ==
    LET top_right == <<bot_right[1], top_left[2]>>
        bot_left == <<top_left[1], bot_right[2]>>
        m1 == set_area(m, top_left, top_right, value, overwrite)
        m2 == set_area(m1, top_right, bot_right, value, overwrite)
        m3 == set_area(m2, top_left, bot_left, value, overwrite)
    IN  set_area(m3, bot_left, bot_right, value, overwrite)

----------------------------------------------------------------------------
(* src/map.rs: the older map, blocks Empty / Hookable / Freeze *)

OldBlockType == {"Empty", "Hookable", "Freeze"}

KernelType == {"Outer", "Inner"}

\* Result<(), &str>; returns <<map, result>>
update(m, walker_pos, walker_kernel, kernel_type) ==
    IF KernelExceeds(m, walker_pos, walker_kernel.size)
    THEN <<m, <<"Err", "kernel out of bounds">> >>
    ELSE LET offset == walker_kernel.size \div 2
             root_pos == <<walker_pos[1] - offset, walker_pos[2] - offset>>
             new_type(current_type) ==
                CASE kernel_type = "Inner" -> "Empty"
                  [] kernel_type = "Outer" /\ current_type = "Hookable" -> "Freeze"
                  [] kernel_type = "Outer" /\ current_type = "Freeze" -> "Freeze"
                  [] kernel_type = "Outer" /\ current_type = "Empty" -> "Empty"
         IN  <<[m EXCEPT
                  !.grid = [p \in DOMAIN m.grid |->
                              IF UnderActive(walker_kernel, root_pos, p)
                              THEN new_type(m.grid[p])
                              ELSE m.grid[p]]],
               <<"Ok", "unit">> >>

----------------------------------------------------------------------------
(* Area and kernel calls on a constructed map *)

\* the blocks the constructed grids are painted with, cycled along the diagonals
Palette ==
    <<"EmptyReserved", "Hookable", "Freeze", "Platform", "Empty", "Spawn", "Start", "Finish">>

\* the blocks of the older map
OldPalette == <<"Hookable", "Freeze", "Empty">>

\* the block painted at cell p
Pattern(p, pal, stride, shift) == pal[((p[1] + stride * p[2] + shift) % Len(pal)) + 1]

\* Map::new followed by one forced one-cell set_area per non-Empty cell
RECURSIVE Paint(_, _, _, _, _)
Paint(m, cells, pal, stride, shift) ==
    IF cells = <<>>
    THEN m
    ELSE LET p == Head(cells)
             b == Pattern(p, pal, stride, shift)
         IN  Paint(IF b = "Empty" THEN m ELSE set_area(m, p, p, b, "Force"),
                   Tail(cells), pal, stride, shift)

Painted(w, h, pal, stride, shift) == Paint(MapNew(w, h), CellSeq(w, h), pal, stride, shift)

GridMaps ==
    {MapNew(GridW, GridH)}
      \cup {Painted(GridW, GridH, pal, stride, shift) :
                pal \in {Palette, OldPalette}, stride \in {1, 2}, shift \in 0 .. NumShifts - 1}

\* corners and positions handed to the calls: every cell, and the first
\* out-of-bounds coordinate on each axis
Positions(m) == (0 .. m.w) \X (0 .. m.h)

OddSizes(max) == {s \in 1 .. max : s % 2 = 1}

\* kernels handed to apply_kernel / update
ArgKernels ==
    {KernelNew(size, off) : size \in OddSizes(GridW + 2), off \in {<<0, 0>>, <<0, 1>>, <<1, 1>>}}

InitGrid ==
    /\ map \in GridMaps
    /\ old = map
    /\ call = [name |-> "new"]
    /\ gen = "none"
    /\ cfg = "none"

CallSetArea ==
    /\ call.name = "new"
    /\ \E top_left \in Positions(map), bot_right \in Positions(map),
          value \in BlockType, overide \in Overwrite :
          /\ map' = set_area(map, top_left, bot_right, value, overide)
          /\ call' = [name |-> "set_area", top_left |-> top_left, bot_right |-> bot_right,
                      value |-> value, overide |-> overide]
    /\ old' = map
    /\ UNCHANGED <<gen, cfg>>

CallSetAreaBorder ==
    /\ call.name = "new"
    /\ \E top_left \in Positions(map), bot_right \in Positions(map),
          value \in BlockType, overwrite \in Overwrite :
          /\ map' = set_area_border(map, top_left, bot_right, value, overwrite)
          /\ call' = [name |-> "set_area_border", top_left |-> top_left, bot_right |-> bot_right,
                      value |-> value, overide |-> overwrite]
    /\ old' = map
    /\ UNCHANGED <<gen, cfg>>

CallApplyKernel ==
    /\ call.name = "new"
    /\ \E pos \in Positions(map), k \in ArgKernels, block_type \in BlockType :
          LET r == apply_kernel(map, pos, k, block_type)
          IN  /\ map' = r[1]
              /\ call' = [name |-> "apply_kernel", pos |-> pos, kernel |-> k,
                          block_type |-> block_type, ret |-> r[2]]
    /\ old' = map
    /\ UNCHANGED <<gen, cfg>>

CallUpdate ==
    /\ call.name = "new"
    /\ \A p \in DOMAIN map.grid : map.grid[p] \in OldBlockType
    /\ \E pos \in Positions(map), k \in ArgKernels, kernel_type \in KernelType :
          LET r == update(map, pos, k, kernel_type)
          IN  /\ map' = r[1]
              /\ call' = [name |-> "update", pos |-> pos, kernel |-> k,
                          kernel_type |-> kernel_type, ret |-> r[2]]
    /\ old' = map
    /\ UNCHANGED <<gen, cfg>>

\* the carve of a step: the inner kernel to Empty, then the outer kernel to
\* Freeze at the same position; mid is the map between the two
CallCarve ==
    /\ call.name = "new"
    /\ \E pos \in Positions(map), inner \in ArgKernels, outer \in ArgKernels :
       \E dug \in {apply_kernel(map, pos, inner, "Empty")} :
       \E r \in {apply_kernel(dug[1], pos, outer, "Freeze")} :
          /\ map' = r[1]
          /\ call' = [name |-> "carve", pos |-> pos, inner |-> inner, outer |-> outer,
                      mid |-> dug[1], ret |-> <<dug[2], r[2]>>]
    /\ old' = map
    /\ UNCHANGED <<gen, cfg>>

\* the same carve on the older map
CallCarveUpdate ==
    /\ call.name = "new"
    /\ \A p \in DOMAIN map.grid : map.grid[p] \in OldBlockType
    /\ \E pos \in Positions(map), inner \in ArgKernels, outer \in ArgKernels :
       \E dug \in {update(map, pos, inner, "Inner")} :
       \E r \in {update(dug[1], pos, outer, "Outer")} :
          /\ map' = r[1]
          /\ call' = [name |-> "carve_update", pos |-> pos, inner |-> inner, outer |-> outer,
                      mid |-> dug[1], ret |-> <<dug[2][1] = "Ok", r[2][1] = "Ok">>]
    /\ old' = map
    /\ UNCHANGED <<gen, cfg>>

CallAreaQuery ==
    /\ call.name = "new"
    /\ \E top_left \in Positions(map), bot_right \in Positions(map), value \in BlockType :
          call' = [name |-> "area_query", top_left |-> top_left, bot_right |-> bot_right,
                   value |-> value,
                   exists |-> check_area_exists(map, top_left, bot_right, value),
                   all |-> check_area_all(map, top_left, bot_right, value),
                   count |-> count_occurence_in_area(map, top_left, bot_right, value)]
    /\ UNCHANGED map
    /\ old' = map
    /\ UNCHANGED <<gen, cfg>>

NextGrid ==
    \/ CallSetArea
    \/ CallSetAreaBorder
    \/ CallApplyKernel
    \/ CallUpdate
    \/ CallAreaQuery
    \/ CallCarve
    \/ CallCarveUpdate

SpecGrid == InitGrid /\ [][NextGrid]_vars

----------------------------------------------------------------------------
(* Sequences of calls on a map of more than one chunk *)

\* corners handed to set_area: of the map, of its last column, which lies in
\* the second, narrower chunk, and out of bounds
ChunkCorners == {<<0, 0>>, <<ChunkW - 1, 0>>, <<ChunkW - 1, ChunkH - 1>>, <<ChunkW, ChunkH - 1>>}

\* blocks and policies handed to the calls
ChunkBlocks == {"Empty", "Hookable", "Freeze"}

InitChunks ==
    /\ map = MapNew(ChunkW, ChunkH)
    /\ old = map
    /\ call = [name |-> "new", calls |-> 0]
    /\ gen = "none"
    /\ cfg = "none"

ChunkSetArea ==
    /\ call.calls < MaxCalls
    /\ \E top_left \in ChunkCorners, bot_right \in ChunkCorners,
          value \in ChunkBlocks, overide \in {"Force", "ReplaceSolidFreeze"} :
          map' = set_area(map, top_left, bot_right, value, overide)
    /\ call' = [name |-> "set_area", calls |-> call.calls + 1]
    /\ old' = map
    /\ UNCHANGED <<gen, cfg>>

ChunkSetAreaBorder ==
    /\ call.calls < MaxCalls
    /\ \E top_left \in {<<0, 0>>}, bot_right \in {<<ChunkW - 1, ChunkH - 1>>, <<ChunkW, ChunkH - 1>>},
          value \in ChunkBlocks, overwrite \in {"Force", "ReplaceSolidFreeze"} :
          map' = set_area_border(map, top_left, bot_right, value, overwrite)
    /\ call' = [name |-> "set_area_border", calls |-> call.calls + 1]
    /\ old' = map
    /\ UNCHANGED <<gen, cfg>>

ChunkApplyKernel ==
    /\ call.calls < MaxCalls
    /\ \E pos \in {<<1, 1>>, <<ChunkW - 1, 1>>},
          k \in {KernelNew(1, <<0, 0>>), KernelNew(3, <<1, 1>>)}, block_type \in ChunkBlocks :
          map' = apply_kernel(map, pos, k, block_type)[1]
    /\ call' = [name |-> "apply_kernel", calls |-> call.calls + 1]
    /\ old' = map
    /\ UNCHANGED <<gen, cfg>>

ChunkClear ==
    /\ call.calls < MaxCalls
    /\ map' = MapClear(map)
    /\ call' = [name |-> "clear", calls |-> call.calls + 1]
    /\ old' = map
    /\ UNCHANGED <<gen, cfg>>

NextChunks == ChunkSetArea \/ ChunkSetAreaBorder \/ ChunkApplyKernel \/ ChunkClear

SpecChunks == InitChunks /\ [][NextChunks]_vars

----------------------------------------------------------------------------
(* src/post_processing.rs: fix_edge_bugs (the same code as
   Generator::fix_edge_bugs in src/generator.rs) *)

\* usize::checked_sub(1): None is modelled as -1
checked_sub_1(a) == IF a >= 1 THEN a - 1 ELSE -1

\* mutant: only the four edge neighbours are inspected
NeighbourSteps_Cardinal == {d \in (0 .. 2) \X (0 .. 2) : (d[1] = 1) # (d[2] = 1)}

\* the (dx, dy) of the two neighbour loops, self excluded
NeighbourSteps == {d \in (0 .. 2) \X (0 .. 2) : ~(d[1] = 1 /\ d[2] = 1)}

\* *neighbor_value == BlockType::Hookable
CausesEdgeBug(neighbor_value) == neighbor_value = "Hookable"

\* mutant: the cell is made solid
EdgeBugBlock_Hookable == "Hookable"

\* gen.map.grid[[x, y]] = BlockType::Freeze
EdgeBugBlock == "Freeze"

\* some `?` of the neighbour loops returns the error for cell p: the first
\* iteration (dx, dy) = (0, 0) does when x = 0 or y = 0, before edge_bug[[x, y]]
\* is set, and no other iteration can
NeighbourUnderflow(p) ==
    \E d \in NeighbourSteps : checked_sub_1(p[1] + d[1]) < 0 \/ checked_sub_1(p[2] + d[2]) < 0

\* edge_bug[[x, y]] after the neighbour loops, read from the grid as it is
\* when the scan reaches p
EdgeBugAt(w, h, grid, p) ==
    \E d \in NeighbourSteps :
       LET neighbor_x == checked_sub_1(p[1] + d[1])
           neighbor_y == checked_sub_1(p[2] + d[2])
       IN  /\ neighbor_x < w /\ neighbor_y < h
           /\ CausesEdgeBug(grid[<<neighbor_x, neighbor_y>>])

\* the scan over the cells still to visit; returns [grid, ret], ret the
\* Result<Array2<bool>, &str>
RECURSIVE FixEdgeScan(_, _, _, _, _)
FixEdgeScan(w, h, grid, edge_bug, cells) ==
    IF cells = <<>>
    THEN [grid |-> grid, ret |-> <<"Ok", edge_bug>>]
    ELSE IF Len(cells) > h
    THEN \* one pass of the loop over x: the h cells of a column, then the rest
         LET column == FixEdgeScan(w, h, grid, edge_bug, SubSeq(cells, 1, h))
         IN  IF column.ret[1] = "Err"
             THEN column
             ELSE FixEdgeScan(w, h, column.grid, column.ret[2],
                              SubSeq(cells, h + 1, Len(cells)))
    ELSE LET p == Head(cells)
         IN  IF grid[p] # "Empty"
             THEN FixEdgeScan(w, h, grid, edge_bug, Tail(cells))
             ELSE IF NeighbourUnderflow(p)
             THEN [grid |-> grid, ret |-> <<"Err", "fix edge bug out of bounds">>]
             ELSE IF EdgeBugAt(w, h, grid, p)
             THEN FixEdgeScan(w, h, [grid EXCEPT ![p] = EdgeBugBlock],
                              [edge_bug EXCEPT ![p] = TRUE], Tail(cells))
             ELSE FixEdgeScan(w, h, grid, edge_bug, Tail(cells))

\* returns <<map, ret>>
fix_edge_bugs(m) ==
    LET r == FixEdgeScan(m.w, m.h, m.grid, [p \in DOMAIN m.grid |-> FALSE], CellSeq(m.w, m.h))
    IN  <<[m EXCEPT !.grid = r.grid], r.ret>>

----------------------------------------------------------------------------
(* src/post_processing.rs: fill_open_areas (the same code as
   Generator::fill_area in src/generator.rs) *)

\* a distance larger than every number: no cell of the mask is set
Infinite == -1

SqrDist(p, q) == (p[1] - q[1]) * (p[1] - q[1]) + (p[2] - q[2]) * (p[2] - q[2])

\* dt_bool, the Euclidean distance transform of the crate dt: for every cell
\* the distance to the nearest cell whose mask value is true, here squared
dt_bool_sqr(mask) ==
    LET set == {c \in DOMAIN mask : mask[c]}
    IN  [p \in DOMAIN mask |->
            IF set = {}
            THEN Infinite
            ELSE LET ds == {SqrDist(p, q) : q \in set}
                 IN  CHOOSE d \in ds : \A e \in ds : d <= e]

\* mutant: the solid threshold lies one block beyond max_distance, not
\* SQRT_2: sqrt(4a) > n + 2
ExceedsPlusSqrt2_PlusOne(distance_sqr, max_distance_x2) ==
    \/ distance_sqr = Infinite
    \/ 4 * distance_sqr > (max_distance_x2 + 2) * (max_distance_x2 + 2)

\* *distance > *max_distance + SQRT_2, for distance = sqrt(distance_sqr) and
\* max_distance = max_distance_x2 / 2 >= 0: sqrt(4a) > n + sqrt(8)
ExceedsPlusSqrt2(distance_sqr, max_distance_x2) ==
    \/ distance_sqr = Infinite
    \/ LET t == 4 * distance_sqr - max_distance_x2 * max_distance_x2 - 8
       IN  t > 0 /\ t * t > 32 * max_distance_x2 * max_distance_x2

\* *distance > *max_distance
Exceeds(distance_sqr, max_distance_x2) ==
    \/ distance_sqr = Infinite
    \/ 4 * distance_sqr > max_distance_x2 * max_distance_x2

\* mutant: the Freeze band is forgotten
FilledBlock_NoFreezeBand(block_type, distance_sqr, max_distance_x2) ==
    IF block_type # "Empty"
    THEN block_type
    ELSE IF ExceedsPlusSqrt2(distance_sqr, max_distance_x2)
    THEN "Hookable"
    ELSE block_type

\* the closure handed to zip_mut_with
FilledBlock(block_type, distance_sqr, max_distance_x2) ==
    IF block_type # "Empty"
    THEN block_type
    ELSE IF ExceedsPlusSqrt2(distance_sqr, max_distance_x2)
    THEN "Hookable"
    ELSE IF Exceeds(distance_sqr, max_distance_x2)
    THEN "Freeze"
    ELSE block_type

\* returns <<map, distance>>, distance squared
fill_open_areas(m, max_distance_x2) ==
    LET grid == [p \in DOMAIN m.grid |-> m.grid[p] # "Empty"]
        distance == dt_bool_sqr(grid)
    IN  <<[m EXCEPT !.grid = [p \in DOMAIN m.grid |->
                                 FilledBlock(m.grid[p], distance[p], max_distance_x2)]],
          distance>>

----------------------------------------------------------------------------
(* The two passes on a constructed map *)

\* Map::new, a forced fill with the background, a forced fill of a rectangle
\* that starts at (1, 1), one forced one-cell write
PostMaps ==
    {set_area(set_area(set_area(MapNew(PostSize, PostSize),
                                <<0, 0>>, <<PostSize - 1, PostSize - 1>>, bg, "Force"),
                       <<1, 1>>, br, v1, "Force"),
              p2, p2, v2, "Force") :
        bg \in OldBlockType, v1 \in OldBlockType, v2 \in OldBlockType,
        br \in (1 .. PostSize - 1) \X (1 .. PostSize - 1), p2 \in Cells(PostSize, PostSize)}

InitPost ==
    /\ map \in PostMaps
    /\ old = map
    /\ call = [name |-> "new"]
    /\ gen = "none"
    /\ cfg = "none"

\* what a call remembers of the call before it
Before == [name |-> call.name,
           ok |-> call.name = "fix_edge_bugs" /\ call.ret[1] = "Ok",
           changed |-> map.grid # old.grid]

\* the passes run in the order of post_processing, each at most once, but
\* that fix_edge_bugs may be run a second time
FirstCallWasFix ==
    IF call.name = "fix_edge_bugs" THEN call.before.name = "new" ELSE FALSE

CallFixEdgeBugs ==
    /\ call.name = "new" \/ FirstCallWasFix
    /\ LET r == fix_edge_bugs(map)
       IN  /\ map' = r[1]
           /\ call' = [name |-> "fix_edge_bugs", ret |-> r[2], before |-> Before]
    /\ old' = map
    /\ UNCHANGED <<gen, cfg>>

CallFillOpenAreas ==
    /\ call.name = "new" \/ FirstCallWasFix
    /\ \E max_distance_x2 \in 0 .. MaxDistanceX2 :
          LET r == fill_open_areas(map, max_distance_x2)
          IN  /\ map' = r[1]
              /\ call' = [name |-> "fill_open_areas", max_distance_x2 |-> max_distance_x2,
                          ret |-> r[2], before |-> Before]
    /\ old' = map
    /\ UNCHANGED <<gen, cfg>>

NextPost == CallFixEdgeBugs \/ CallFillOpenAreas

SpecPost == InitPost /\ [][NextPost]_vars

----------------------------------------------------------------------------
(* Claims on the area and kernel calls *)

\* the grid coordinates a kernel of the given size centred at pos covers
Footprint(pos, size) ==
    {<<pos[1] - (size \div 2) + i, pos[2] - (size \div 2) + j>> : i, j \in 0 .. size - 1}

FootprintFits(m, pos, size) == Footprint(pos, size) \subseteq DOMAIN m.grid

IsKernelCall == call.name \in {"apply_kernel", "update"}

Failed == IF call.name = "apply_kernel" THEN call.ret = FALSE ELSE call.ret[1] = "Err"

\* the kernel's mask value over grid cell p (FALSE outside the footprint)
ActiveOver(pos, k, p) ==
    LET kx == p[1] - (pos[1] - (k.size \div 2))
        ky == p[2] - (pos[2] - (k.size \div 2))
    IN  /\ kx \in 0 .. k.size - 1
        /\ ky \in 0 .. k.size - 1
        /\ k.vector[<<kx, ky>>]

(* C1: when the kernel footprint centred at pos extends past a grid edge,
   apply_kernel and the older Map::update report failure and leave every
   grid cell and every dirty-chunk flag as it was. *)
C1_OutOfBoundsKernelNoMutation ==
    (IsKernelCall /\ ~FootprintFits(old, call.pos, call.kernel.size))
        => (Failed /\ map.grid = old.grid /\ map.chunks_edited = old.chunks_edited)

\* a rejected apply_kernel whose mask lies over a Hookable cell of a map with a clean chunk
C1_Witness ==
    /\ call.name = "apply_kernel"
    /\ ~FootprintFits(old, call.pos, call.kernel.size)
    /\ call.pos \in DOMAIN old.grid
    /\ call.block_type = "Empty"
    /\ \E p \in DOMAIN old.grid : ActiveOver(call.pos, call.kernel, p) /\ old.grid[p] = "Hookable"
    /\ call.ret = FALSE

(* C2 as stated: when the footprint fits, apply_kernel sets to the target
   block every cell under an active kernel cell whose block is in gameplay
   category Hookable or Freeze (to_game_tile), and leaves every other cell
   unchanged. *)
C2_Original ==
    (call.name = "apply_kernel" /\ FootprintFits(old, call.pos, call.kernel.size))
        => \A p \in DOMAIN old.grid :
              map.grid[p] =
                 IF ActiveOver(call.pos, call.kernel, p)
                      /\ to_game_tile(old.grid[p]) \in {"Hookable", "Freeze"}
                 THEN call.block_type
                 ELSE old.grid[p]

(* C2 amended: when the footprint fits, apply_kernel succeeds and sets to
   the target block every cell under an active kernel cell whose block is
   Hookable or Freeze itself; every other cell is unchanged: cells under an
   inactive kernel cell, cells outside the footprint, active cells of
   category Empty, and active Platform cells although to_game_tile puts
   them in category Hookable. *)
C2_ApplyKernelEffect ==
    (call.name = "apply_kernel" /\ FootprintFits(old, call.pos, call.kernel.size))
        => /\ call.ret = TRUE
           /\ \A p \in DOMAIN old.grid :
                 map.grid[p] =
                    IF ActiveOver(call.pos, call.kernel, p)
                         /\ old.grid[p] \in {"Hookable", "Freeze"}
                    THEN call.block_type
                    ELSE old.grid[p]

\* a fitting apply_kernel to Empty with a partial mask: active over Hookable,
\* Freeze, Platform and Spawn cells, with a Freeze cell under an inactive cell
C2_Witness ==
    /\ call.name = "apply_kernel"
    /\ FootprintFits(old, call.pos, call.kernel.size)
    /\ call.block_type = "Empty"
    /\ \E p, q, r, t, u \in DOMAIN old.grid :
          /\ ActiveOver(call.pos, call.kernel, p) /\ old.grid[p] = "Hookable"
          /\ map.grid[p] = "Empty"
          /\ ActiveOver(call.pos, call.kernel, q) /\ old.grid[q] = "Freeze"
          /\ map.grid[q] = "Empty"
          /\ ActiveOver(call.pos, call.kernel, r) /\ old.grid[r] = "Platform"
          /\ map.grid[r] = "Platform"
          /\ ActiveOver(call.pos, call.kernel, t) /\ old.grid[t] = "Spawn"
          /\ u \in Footprint(call.pos, call.kernel.size)
          /\ ~ActiveOver(call.pos, call.kernel, u) /\ old.grid[u] = "Freeze"
          /\ map.grid[u] = "Freeze"

InRect(p, top_left, bot_right) ==
    /\ top_left[1] <= p[1] /\ p[1] <= bot_right[1]
    /\ top_left[2] <= p[2] /\ p[2] <= bot_right[2]

CornersInGrid(m) == call.top_left \in DOMAIN m.grid /\ call.bot_right \in DOMAIN m.grid

(* C3: for every in-bounds rectangle, set_area with ReplaceSolidOnly changes
   only cells that were Hookable before the call, each to the given value;
   Freeze, Empty and every other block, and every cell outside the
   rectangle, keep their value. *)
C3_ReplaceSolidOnly ==
    (call.name = "set_area" /\ call.overide = "ReplaceSolidOnly" /\ CornersInGrid(old))
        => \A p \in DOMAIN old.grid :
              map.grid[p] =
                 IF InRect(p, call.top_left, call.bot_right) /\ old.grid[p] = "Hookable"
                 THEN call.value
                 ELSE old.grid[p]

\* a ReplaceSolidOnly call whose rectangle holds a Hookable, a Freeze, an
\* Empty and a Platform cell, with a Freeze cell outside it
C3_Witness ==
    /\ call.name = "set_area"
    /\ call.overide = "ReplaceSolidOnly"
    /\ call.value = "Start"
    /\ CornersInGrid(old)
    /\ \E p, q, r, t, u \in DOMAIN old.grid :
          /\ InRect(p, call.top_left, call.bot_right) /\ old.grid[p] = "Hookable"
          /\ map.grid[p] = "Start"
          /\ InRect(q, call.top_left, call.bot_right) /\ old.grid[q] = "Freeze"
          /\ InRect(r, call.top_left, call.bot_right) /\ old.grid[r] = "Empty"
          /\ InRect(t, call.top_left, call.bot_right) /\ old.grid[t] = "Platform"
          /\ ~InRect(u, call.top_left, call.bot_right) /\ old.grid[u] = "Freeze"

(* C4: when top_left or bot_right lies outside the grid, set_area changes no
   grid cell and no dirty-chunk flag, and check_area_exists, check_area_all
   and count_occurence_in_area each return an error. *)
C4_OutOfBoundsArea ==
    /\ (call.name = "set_area" /\ ~CornersInGrid(old))
          => (map.grid = old.grid /\ map.chunks_edited = old.chunks_edited)
    /\ (call.name = "area_query" /\ ~CornersInGrid(old))
          => (call.exists[1] = "Err" /\ call.all[1] = "Err" /\ call.count[1] = "Err")

\* a forced set_area on a clean all-Empty map whose bot_right is one column
\* past the grid, so that a clamped rectangle would cover cells
C4_Witness ==
    /\ call.name = "set_area"
    /\ call.overide = "Force"
    /\ call.value = "Hookable"
    /\ call.top_left = <<0, 0>>
    /\ call.bot_right = <<old.w, old.h - 1>>
    /\ \A c \in DOMAIN old.chunks_edited : ~old.chunks_edited[c]
    /\ map = old


(* C18: an EmptyReserved cell is changed by set_area / set_area_border only
   under Force and ReplaceNonSolidForce, and a Spawn, Start, Finish or
   Platform cell only under Force; under every other policy, for every
   rectangle and value, such cells keep their value. *)
C18_ProtectedBlocksKept ==
    call.name \in {"set_area", "set_area_border"}
        => \A p \in DOMAIN old.grid :
              /\ (old.grid[p] = "EmptyReserved"
                     /\ call.overide \notin {"Force", "ReplaceNonSolidForce"})
                    => map.grid[p] = old.grid[p]
              /\ (old.grid[p] \in {"Spawn", "Start", "Finish", "Platform"}
                     /\ call.overide # "Force")
                    => map.grid[p] = old.grid[p]

\* a set_area_border call with ReplaceNonSolid, in bounds, whose border
\* holds an EmptyReserved and a Platform cell, both kept, and an Empty cell
\* that was overwritten
C18_Witness ==
    /\ call.name = "set_area_border"
    /\ call.overide = "ReplaceNonSolid"
    /\ call.value = "Hookable"
    /\ CornersInGrid(old)
    /\ \E p, q, r \in DOMAIN old.grid :
          /\ p[1] \in {call.top_left[1], call.bot_right[1]}
          /\ InRect(p, call.top_left, call.bot_right)
          /\ old.grid[p] = "EmptyReserved" /\ map.grid[p] = "EmptyReserved"
          /\ InRect(q, call.top_left, call.bot_right)
          /\ q[2] \in {call.top_left[2], call.bot_right[2]}
          /\ old.grid[q] = "Platform" /\ map.grid[q] = "Platform"
          /\ old.grid[r] = "Empty" /\ map.grid[r] = "Hookable"

IsCarve == call.name \in {"carve", "carve_update"}

(* C26: in a carve, the inner kernel to Empty and then the outer kernel to
   Freeze at the same position, every cell the inner kernel has emptied is
   still Empty afterwards; the outer kernel changes only Hookable cells, to
   Freeze, never changes an Empty cell and never produces a Hookable cell. *)
C26_CarveOnlyWidens ==
    IsCarve
        => \A p \in DOMAIN old.grid :
              /\ (old.grid[p] # "Empty" /\ call.mid.grid[p] = "Empty") => map.grid[p] = "Empty"
              /\ map.grid[p] # call.mid.grid[p]
                    => (call.mid.grid[p] = "Hookable" /\ map.grid[p] = "Freeze")
              /\ call.mid.grid[p] = "Empty" => map.grid[p] = "Empty"
              /\ map.grid[p] = "Hookable" => call.mid.grid[p] = "Hookable"

\* both kernels fitted: the inner one has emptied a cell, which lies under
\* the outer one; the outer one has frozen a Hookable cell and kept a Platform
C26_Witness ==
    /\ call.name = "carve"
    /\ call.ret = <<TRUE, TRUE>>
    /\ \E p, q, r \in DOMAIN old.grid :
          /\ old.grid[p] \in {"Hookable", "Freeze"}
          /\ call.mid.grid[p] = "Empty" /\ map.grid[p] = "Empty"
          /\ UnderActive(call.outer, <<call.pos[1] - call.outer.size \div 2,
                                       call.pos[2] - call.outer.size \div 2>>, p)
          /\ call.mid.grid[q] = "Hookable" /\ map.grid[q] = "Freeze"
          /\ UnderActive(call.outer, <<call.pos[1] - call.outer.size \div 2,
                                       call.pos[2] - call.outer.size \div 2>>, r)
          /\ call.mid.grid[r] = "Platform" /\ map.grid[r] = "Platform"

(* C30: in every state reached from Map::new by a sequence of apply_kernel,
   set_area, set_area_border and clear calls, every cell whose block is not
   Empty lies in a chunk whose dirty flag is set, and the chunk index of
   every cell is inside the dirty-chunk bitmap, also when the width or the
   height is not a multiple of the chunk size. *)
C30_NonEmptyChunksDirty ==
    \A p \in DOMAIN map.grid :
       /\ pos_to_chunk_pos(p) \in DOMAIN map.chunks_edited
       /\ map.grid[p] # "Empty" => map.chunks_edited[pos_to_chunk_pos(p)]

\* a kernel call has left a Freeze block in the narrower second chunk, which
\* is dirty, while the first chunk is clean
C30_Witness ==
    /\ call.name = "apply_kernel"
    /\ map.w % CHUNK_SIZE # 0
    /\ \E p \in DOMAIN map.grid :
          /\ old.grid[p] = "Hookable" /\ map.grid[p] = "Freeze"
          /\ pos_to_chunk_pos(p) = <<1, 0>>
    /\ map.chunks_edited[<<1, 0>>]
    /\ ~map.chunks_edited[<<0, 0>>]

----------------------------------------------------------------------------
(* Kernel construction *)

InitKernel ==
    /\ map = MapNew(0, 0)
    /\ old = map
    /\ call = [name |-> "none"]
    /\ gen = "none"
    /\ cfg = "none"

CallKernelNew ==
    /\ \E size \in 1 .. MaxKernelSize, limiting_offset \in (0 .. MaxOffset) \X (0 .. MaxOffset) :
          call' = [name |-> "Kernel::new", size |-> size, limiting_offset |-> limiting_offset,
                   ret |-> KernelNew(size, limiting_offset)]
    /\ UNCHANGED <<map, old>>
    /\ UNCHANGED <<gen, cfg>>

CallIsValidRadius ==
    /\ \E size \in 1 .. MaxKernelSize, radius_sqr \in 0 .. 2 * MaxOffset * MaxOffset :
          call' = [name |-> "is_valid_radius", size |-> size, radius_sqr |-> radius_sqr,
                   bounds |-> get_valid_radius_bounds(size),
                   ret |-> is_valid_radius(size, radius_sqr)]
    /\ UNCHANGED <<map, old>>
    /\ UNCHANGED <<gen, cfg>>

CallGetUniqueRadiiSqr ==
    /\ \E size \in 1 .. MaxRadiiSize :
          call' = [name |-> "get_unique_radii_sqr", size |-> size,
                   ret |-> get_unique_radii_sqr(size)]
    /\ UNCHANGED <<map, old>>
    /\ UNCHANGED <<gen, cfg>>

NextKernel == CallKernelNew \/ CallIsValidRadius \/ CallGetUniqueRadiiSqr

SpecKernel == InitKernel /\ [][NextKernel]_vars

----------------------------------------------------------------------------
(* Claims on the kernel *)

IsOddSize(size) == size >= 3 /\ size % 2 = 1

\* the squared distance from a mask's centre to the middle of an edge, and to a corner
EdgeRadius(size) == ((size - 1) \div 2) * ((size - 1) \div 2)

CornerRadius(size) == 2 * EdgeRadius(size)

CentreCell(size) == <<(size - 1) \div 2, (size - 1) \div 2>>

MaskSymmetric(size, v) ==
    \A p \in (0 .. size - 1) \X (0 .. size - 1) :
       /\ v[p] = v[<<size - 1 - p[1], p[2]>>]
       /\ v[p] = v[<<p[1], size - 1 - p[2]>>]
       /\ v[p] = v[<<p[2], p[1]>>]

(* C5: for every odd size S >= 3 and every squared radius R with
   min_radius(S) <= R <= max_radius(S), the mask the constructor builds has
   its centre cell active and is unchanged by horizontal reflection,
   vertical reflection and transposition. Checked of the constructed
   kernel, and of get_kernel_vector at every R of the range, also those no
   limiting offset produces. *)
C5_MaskCentredSymmetric ==
    (call.name = "Kernel::new" /\ IsOddSize(call.size))
        => /\ (EdgeRadius(call.size) <= call.ret.max_distance_sqr
                  /\ call.ret.max_distance_sqr <= CornerRadius(call.size))
                 => /\ call.ret.vector[CentreCell(call.size)]
                    /\ MaskSymmetric(call.size, call.ret.vector)
           /\ \A R \in EdgeRadius(call.size) .. CornerRadius(call.size) :
                 /\ get_kernel_vector(call.size, R)[CentreCell(call.size)]
                 /\ MaskSymmetric(call.size, get_kernel_vector(call.size, R))

\* a size-5 kernel of squared radius 5: active centre, inactive corners
C5_Witness ==
    /\ call.name = "Kernel::new"
    /\ call.size = 5
    /\ call.ret.max_distance_sqr = 5
    /\ call.ret.vector[<<2, 2>>]
    /\ call.ret.vector[<<0, 1>>]
    /\ ~call.ret.vector[<<0, 0>>]

HasActiveOffCentre(size, v) ==
    \E p \in (0 .. size - 1) \X (0 .. size - 1) : p # CentreCell(size) /\ v[p]

HasInactive(size, v) == \E p \in (0 .. size - 1) \X (0 .. size - 1) : ~v[p]

(* C6 as stated: for every odd size S >= 3, every squared radius R in the
   closed range returned by get_valid_radius_bounds(S) produces a mask with
   at least one active cell other than the centre and at least one
   inactive cell. *)
C6_Original ==
    (/\ call.name = "Kernel::new"
     /\ IsOddSize(call.size)
     /\ is_valid_radius(call.size, call.ret.max_distance_sqr))
        => /\ HasActiveOffCentre(call.size, call.ret.vector)
           /\ HasInactive(call.size, call.ret.vector)

(* C6 amended: for every odd size S >= 3, every squared radius R in the
   closed range returned by get_valid_radius_bounds(S) produces a mask with
   at least one active cell other than the centre; the mask has an inactive
   cell exactly when R is below the returned maximum: at R = max_radius(S)
   every cell of the mask is active. *)
C6_ValidRadiusMask ==
    (call.name = "Kernel::new" /\ IsOddSize(call.size))
        => \A R \in get_valid_radius_bounds(call.size)[1] .. get_valid_radius_bounds(call.size)[2] :
              /\ is_valid_radius(call.size, R)
              /\ HasActiveOffCentre(call.size, get_kernel_vector(call.size, R))
              /\ HasInactive(call.size, get_kernel_vector(call.size, R))
                    <=> R < get_valid_radius_bounds(call.size)[2]
              /\ R = call.ret.max_distance_sqr
                    => call.ret.vector = get_kernel_vector(call.size, R)

\* the size-3 kernel built at the returned maximum, squared radius 2: all nine cells active
C6_Witness ==
    /\ call.name = "Kernel::new"
    /\ call.size = 3
    /\ call.ret.max_distance_sqr = get_valid_radius_bounds(3)[2]
    /\ \A p \in DOMAIN call.ret.vector : call.ret.vector[p]

\* the squared distances of the cells of a mask from its centre
MaskDistances(size) ==
    {abs_diff(p[1], CentreCell(size)[1]) * abs_diff(p[1], CentreCell(size)[1])
       + abs_diff(p[2], CentreCell(size)[2]) * abs_diff(p[2], CentreCell(size)[2]) :
        p \in (0 .. size - 1) \X (0 .. size - 1)}

(* C25: for every odd size S >= 3, get_unique_radii_sqr(S) returns, without
   duplicates, exactly the squared radii in [min_radius(S), max_radius(S)]
   that are the squared distance of some mask cell from the centre; the
   masks of two different returned radii differ, and the mask of every
   valid radius is the mask of one of the returned radii. *)
C25_UniqueRadii ==
    (call.name = "get_unique_radii_sqr" /\ IsOddSize(call.size))
        => /\ \A i, j \in 1 .. Len(call.ret) : i # j => call.ret[i] # call.ret[j]
           /\ {call.ret[i] : i \in 1 .. Len(call.ret)}
                 = {R \in MaskDistances(call.size) :
                       /\ get_valid_radius_bounds(call.size)[1] <= R
                       /\ R <= get_valid_radius_bounds(call.size)[2]}
           /\ \A i, j \in 1 .. Len(call.ret) :
                 i # j => get_kernel_vector(call.size, call.ret[i])
                             # get_kernel_vector(call.size, call.ret[j])
           /\ \A R \in get_valid_radius_bounds(call.size)[1]
                         .. get_valid_radius_bounds(call.size)[2] :
                 /\ is_valid_radius(call.size, R)
                 /\ \E i \in 1 .. Len(call.ret) :
                       get_kernel_vector(call.size, R)
                          = get_kernel_vector(call.size, call.ret[i])

\* size 11: 25 is the squared distance of the offsets (0, 5) and (3, 4) and
\* is returned, and 27 and 28, which no cell has, are not
C25_Witness ==
    /\ call.name = "get_unique_radii_sqr"
    /\ call.size = 11
    /\ \E i \in 1 .. Len(call.ret) : call.ret[i] = 25
    /\ \A i \in 1 .. Len(call.ret) : call.ret[i] \notin 27 .. 28

----------------------------------------------------------------------------
(* Claims on the edge-bug fix and the distance fill *)

\* the in-grid cells of the 3x3 neighbourhood of p, p excluded
Neighbours8(m, p) ==
    {q \in DOMAIN m.grid : q # p /\ abs_diff(q[1], p[1]) <= 1 /\ abs_diff(q[2], p[2]) <= 1}

TouchesHookable(m, p) == \E q \in Neighbours8(m, p) : m.grid[q] = "Hookable"

FixCompleted == call.name = "fix_edge_bugs" /\ call.ret[1] = "Ok"

(* C7: after the edge-bug fix completes, no Empty cell has a Hookable cell
   among its in-grid 3x3 neighbours: every cell that was Empty with at
   least one Hookable neighbour is Freeze, and every other cell is
   unchanged. *)
C7_EdgeBugFixBuffer ==
    FixCompleted
        => /\ \A p \in DOMAIN map.grid : ~(map.grid[p] = "Empty" /\ TouchesHookable(map, p))
           /\ \A p \in DOMAIN old.grid :
                 map.grid[p] =
                    IF old.grid[p] = "Empty" /\ TouchesHookable(old, p)
                    THEN "Freeze"
                    ELSE old.grid[p]

\* a completed fix that turned an Empty cell with only a diagonal Hookable
\* neighbour into Freeze and left another Empty cell as it was
C7_Witness ==
    /\ FixCompleted
    /\ \E p, q \in DOMAIN old.grid :
          /\ old.grid[p] = "Empty" /\ map.grid[p] = "Freeze"
          /\ \A n \in Neighbours8(old, p) :
                old.grid[n] = "Hookable" => (n[1] # p[1] /\ n[2] # p[2])
          /\ old.grid[q] = "Empty" /\ map.grid[q] = "Empty"

(* C8: the edge-bug fix is idempotent: run a second time on a grid on which
   it succeeded, it succeeds, changes no cell and reports no edge-bug
   location. *)
C8_EdgeBugFixIdempotent ==
    (call.name = "fix_edge_bugs" /\ call.before.name = "fix_edge_bugs" /\ call.before.ok)
        => /\ call.ret[1] = "Ok"
           /\ map.grid = old.grid
           /\ \A p \in DOMAIN map.grid : ~call.ret[2][p]

\* a second run after a first run that succeeded and changed the grid, on a
\* grid that still holds an Empty cell
C8_Witness ==
    /\ call.name = "fix_edge_bugs"
    /\ call.before.name = "fix_edge_bugs"
    /\ call.before.ok
    /\ call.before.changed
    /\ \E p \in DOMAIN map.grid : map.grid[p] = "Empty"
    /\ call.ret[1] = "Ok"

\* the classification of every cell against the grid as it is before the
\* pass: the edge-bug mask, and the grid with all writes applied afterwards
SnapshotMask(m) == [p \in DOMAIN m.grid |-> m.grid[p] = "Empty" /\ TouchesHookable(m, p)]

SnapshotGrid(m) ==
    [p \in DOMAIN m.grid |-> IF SnapshotMask(m)[p] THEN "Freeze" ELSE m.grid[p]]

\* scan orders: the code's (x outermost), its reverse, and y outermost
ScanOrders(w, h) ==
    {CellSeq(w, h),
     [i \in 1 .. w * h |-> CellSeq(w, h)[w * h + 1 - i]],
     [i \in 1 .. w * h |-> <<(i - 1) % w, (i - 1) \div w>>]}

\* the in-place scan of grid m in the given order
ScanIn(m, order) ==
    FixEdgeScan(m.w, m.h, m.grid, [p \in DOMAIN m.grid |-> FALSE], order)

(* C27: the in-place scan of fix_edge_bugs is order independent: for every
   grid it yields the same final grid and the same edge-bug mask as
   classifying every cell against a snapshot taken before the pass and
   applying all writes afterwards, whatever order the cells are scanned
   in. *)
C27_InPlaceEqualsSnapshot ==
    call.name = "fix_edge_bugs"
        => /\ map.grid = SnapshotGrid(old)
           /\ call.ret = <<"Ok", SnapshotMask(old)>>
           /\ \A order \in ScanOrders(old.w, old.h) :
                 /\ ScanIn(old, order).grid = map.grid
                 /\ ScanIn(old, order).ret = call.ret

\* on the grids on which the pass completes, the scan in every order is the
\* snapshot classification
CompletedScanIsSnapshot ==
    FixCompleted
        => /\ map.grid = SnapshotGrid(old)
           /\ call.ret = <<"Ok", SnapshotMask(old)>>
           /\ \A order \in ScanOrders(old.w, old.h) :
                 /\ ScanIn(old, order).grid = map.grid
                 /\ ScanIn(old, order).ret = call.ret

\* a pass has stopped with an error after it had rewritten a cell, and the
\* scan in another order stops with the grid as it was
StoppedHalfway ==
    /\ call.name = "fix_edge_bugs"
    /\ call.ret[1] = "Err"
    /\ map.grid # old.grid
    /\ \E order \in ScanOrders(old.w, old.h) : ScanIn(old, order).grid = old.grid

(* C28: fix_edge_bugs succeeds on every grid, also on one with an Empty cell
   in column 0 or row 0: a neighbour coordinate outside the grid is skipped
   and not reported as an error, and the pass never stops with part of the
   grid rewritten. *)
C28_FixNeverFails ==
    call.name = "fix_edge_bugs"
        => /\ call.ret[1] = "Ok"
           /\ call.ret[1] = "Err" => map.grid = old.grid

\* sqrt(SqrDist) <= max_distance, max_distance given in halves
WithinMaxDistance(p, q, max_distance_x2) ==
    4 * SqrDist(p, q) <= max_distance_x2 * max_distance_x2

(* C9: the distance-fill pass changes no cell that was non-Empty before the
   pass, and afterwards every cell that is still Empty has Euclidean
   distance at most max_distance to the nearest cell that was non-Empty
   before the pass. *)
C9_DistanceFill ==
    call.name = "fill_open_areas"
        => \A p \in DOMAIN old.grid :
              /\ old.grid[p] # "Empty" => map.grid[p] = old.grid[p]
              /\ map.grid[p] = "Empty"
                    => \E q \in DOMAIN old.grid :
                          /\ old.grid[q] # "Empty"
                          /\ WithinMaxDistance(p, q, call.max_distance_x2)

\* a fill with max_distance 1.5 after which an Empty cell remains, a cell
\* has become Freeze and a cell has become Hookable
C9_Witness ==
    /\ call.name = "fill_open_areas"
    /\ call.max_distance_x2 = 3
    /\ \E p, q, r \in DOMAIN old.grid :
          /\ old.grid[p] = "Empty" /\ map.grid[p] = "Empty"
          /\ old.grid[q] = "Empty" /\ map.grid[q] = "Freeze"
          /\ old.grid[r] = "Empty" /\ map.grid[r] = "Hookable"

(* C29: after the distance fill, no cell the pass has turned into Hookable
   is 8-adjacent to a cell that is still Empty: the pass creates no Empty
   cell touching a new Hookable cell. *)
C29_NewSolidNotNextToEmpty ==
    call.name = "fill_open_areas"
        => \A p \in DOMAIN old.grid :
              (old.grid[p] = "Empty" /\ map.grid[p] = "Hookable")
                 => \A q \in Neighbours8(map, p) : map.grid[q] # "Empty"

\* a fill that has made a cell Hookable next to a cell it has made Freeze,
\* the Freeze cell next to a cell that is still Empty
C29_Witness ==
    /\ call.name = "fill_open_areas"
    /\ \E p \in DOMAIN old.grid :
          /\ old.grid[p] = "Empty" /\ map.grid[p] = "Hookable"
          /\ \E q \in Neighbours8(map, p) :
                /\ old.grid[q] = "Empty" /\ map.grid[q] = "Freeze"
                /\ \E r \in Neighbours8(map, q) : map.grid[r] = "Empty"

----------------------------------------------------------------------------
(* src/post_processing.rs: find_corners, check_corner_skip, generate_skip,
   generate_all_skips (the same code as Generator::find_corners,
   check_corner_skip, generate_skip, get_all_valid_skips in src/generator.rs).
   Position and ShiftDirection live in position.rs; a Position is <<x, y>>. *)

ShiftDirection == {"Up", "Right", "Down", "Left"}

\* Position::shift_in_direction: one cell in the direction, an error when
\* the cell is outside the map; Up is towards y = 0
shift_in_direction(pos, shift, m) ==
    LET x == pos[1] + (IF shift = "Right" THEN 1 ELSE IF shift = "Left" THEN -1 ELSE 0)
        y == pos[2] + (IF shift = "Down" THEN 1 ELSE IF shift = "Up" THEN -1 ELSE 0)
    IN  IF x >= 0 /\ y >= 0 /\ pos_in_bounds(m, <<x, y>>)
        THEN <<"Ok", <<x, y>>>>
        ELSE <<"Err", "invalid shift">>

\* Position::shifted_by, applied to a position for which the result is
\* not negative
shifted_by(pos, x_shift, y_shift) == <<pos[1] + x_shift, pos[2] + y_shift>>

\* Position::distance_squared
distance_squared(a, b) == SqrDist(a, b)

window_size == 2

\* the eight shapes, as window indices, in the order of the array
shapes ==
    << [cells |-> {<<2, 3>>, <<3, 0>>, <<3, 1>>, <<3, 2>>, <<3, 3>>}, dir |-> "Right"],
       [cells |-> {<<2, 1>>, <<3, 1>>, <<3, 2>>, <<3, 3>>, <<3, 4>>}, dir |-> "Right"],
       [cells |-> {<<2, 3>>, <<1, 0>>, <<1, 1>>, <<1, 2>>, <<1, 3>>}, dir |-> "Left"],
       [cells |-> {<<2, 1>>, <<1, 1>>, <<1, 2>>, <<1, 3>>, <<1, 4>>}, dir |-> "Left"],
       [cells |-> {<<3, 2>>, <<0, 1>>, <<1, 1>>, <<2, 1>>, <<3, 1>>}, dir |-> "Up"],
       [cells |-> {<<1, 2>>, <<1, 1>>, <<2, 1>>, <<3, 1>>, <<4, 1>>}, dir |-> "Up"],
       [cells |-> {<<3, 2>>, <<0, 3>>, <<1, 3>>, <<2, 3>>, <<3, 3>>}, dir |-> "Down"],
       [cells |-> {<<1, 2>>, <<1, 3>>, <<2, 3>>, <<3, 3>>, <<4, 3>>}, dir |-> "Down"] >>

\* window[[i, j]] of the window centred at c
WindowCell(m, c, ij) == m.grid[<<c[1] - window_size + ij[1], c[2] - window_size + ij[2]>>]

\* the window centres in scan order, window_x outermost, each paired with
\* the index of a shape, the shapes innermost
WindowSlots(m) ==
    LET nx == IF m.w > 2 * window_size THEN m.w - 2 * window_size ELSE 0
        ny == IF m.h > 2 * window_size THEN m.h - 2 * window_size ELSE 0
        n  == Len(shapes)
    IN  [i \in 1 .. nx * ny * n |->
            LET c == (i - 1) \div n
            IN  << <<window_size + (c \div ny), window_size + (c % ny)>>, ((i - 1) % n) + 1 >>]

\* the candidates, each <<Position, ShiftDirection>>, in push order
find_corners(m) ==
    LET Matches(slot) ==
            /\ WindowCell(m, slot[1], <<2, 2>>) = "Empty"
            /\ \A ij \in shapes[slot[2]].cells : is_freeze(WindowCell(m, slot[1], ij))
        hits == SelectSeq(WindowSlots(m), Matches)
    IN  [i \in 1 .. Len(hits) |-> <<hits[i][1], shapes[hits[i][2]].dir>>]

\* mutant: the first Empty block after the Hookable run is accepted
NextStage_EmptyAfterHookable(stage, curr_block_type) ==
    IF stage \in {0, 1} /\ curr_block_type = "Freeze" THEN 1
    ELSE IF stage \in {1, 2} /\ curr_block_type = "Hookable" THEN 2
    ELSE IF stage \in {2, 3} /\ curr_block_type = "Freeze" THEN 3
    ELSE IF stage \in {2, 3} /\ curr_block_type = "Empty" THEN 4
    ELSE 0

\* the match on (stage, curr_block_type); 0 stands for `return None`
NextStage(stage, curr_block_type) ==
    IF stage \in {0, 1} /\ curr_block_type = "Freeze" THEN 1
    ELSE IF stage \in {1, 2} /\ curr_block_type = "Hookable" THEN 2
    ELSE IF stage \in {2, 3} /\ curr_block_type = "Freeze" THEN 3
    ELSE IF stage = 3 /\ curr_block_type = "Empty" THEN 4
    ELSE 0

\* the while loop of check_corner_skip and the test after it; None carries
\* the number of shift_in_direction calls made
RECURSIVE CornerWalk(_, _, _, _, _, _)
CornerWalk(m, pos, shift, tunnel_bounds, skip_length, stage) ==
    IF stage # 4 /\ skip_length < tunnel_bounds[2]
    THEN LET shifted == shift_in_direction(pos, shift, m)
         IN  IF shifted[1] = "Err"
             THEN <<"None", skip_length + 1>>
             ELSE LET next == NextStage(stage, m.grid[shifted[2]])
                  IN  IF next = 0
                      THEN <<"None", skip_length + 1>>
                      ELSE CornerWalk(m, shifted[2], shift, tunnel_bounds, skip_length + 1, next)
    ELSE IF stage = 4 /\ skip_length > tunnel_bounds[1]
         THEN <<"Some", pos, skip_length>>
         ELSE <<"None", skip_length>>

check_corner_skip(m, init_pos, shift, tunnel_bounds) ==
    CornerWalk(m, init_pos, shift, tunnel_bounds, 0, 0)

\* mutant: the rectangle is cleared and no strip is frozen
generate_skip_NoStrips(m, start_pos, end_pos, shift) ==
    LET Min(a, b) == IF a <= b THEN a ELSE b
        Max(a, b) == IF a >= b THEN a ELSE b
        top_left == <<Min(start_pos[1], end_pos[1]), Min(start_pos[2], end_pos[2])>>
        bot_right == <<Max(start_pos[1], end_pos[1]), Max(start_pos[2], end_pos[2])>>
    IN  set_area(m, top_left, bot_right, "Empty", "ReplaceSolidFreeze")

\* generate_skip; set_area's Result is dropped
generate_skip(m, start_pos, end_pos, shift) ==
    LET Min(a, b) == IF a <= b THEN a ELSE b
        Max(a, b) == IF a >= b THEN a ELSE b
        top_left == <<Min(start_pos[1], end_pos[1]), Min(start_pos[2], end_pos[2])>>
        bot_right == <<Max(start_pos[1], end_pos[1]), Max(start_pos[2], end_pos[2])>>
        cleared == set_area(m, top_left, bot_right, "Empty", "ReplaceSolidFreeze")
        dx == IF shift \in {"Left", "Right"} THEN 0 ELSE 1
        dy == IF shift \in {"Left", "Right"} THEN 1 ELSE 0
        first == set_area(cleared, shifted_by(top_left, -dx, -dy), shifted_by(bot_right, -dx, -dy),
                          "Freeze", "ReplaceSolidOnly")
    IN  set_area(first, shifted_by(top_left, dx, dy), shifted_by(bot_right, dx, dy),
                 "Freeze", "ReplaceSolidOnly")

\* the skips pushed by the first loop of generate_all_skips, each
\* [start, end, shift, length]
PossibleSkips(m, length_bounds) ==
    LET corner_candidates == find_corners(m)
        Found(c) == check_corner_skip(m, c[1], c[2], length_bounds)
        kept == SelectSeq(corner_candidates, LAMBDA c : Found(c)[1] = "Some")
    IN  [i \in 1 .. Len(kept) |->
            [start |-> kept[i][1], end |-> Found(kept[i])[2], shift |-> kept[i][2],
             length |-> Found(kept[i])[3]]]

\* the orders sort_unstable_by may leave the skips in: ascending length, the
\* order of equal lengths not fixed
SortedByLength(skips) ==
    LET n == Len(skips)
        perms == {f \in [1 .. n -> 1 .. n] : \A i, j \in 1 .. n : i # j => f[i] # f[j]}
    IN  {[i \in 1 .. n |-> skips[f[i]]] :
            f \in {g \in perms : \A i, j \in 1 .. n :
                                    i < j => skips[g[i]].length <= skips[g[j]].length}}

\* mutant: a distance equal to the spacing conflicts as well
Conflicts_AtSpacing(skip, other, min_spacing_sqr) ==
    \/ distance_squared(skip.start, other.start) <= min_spacing_sqr
    \/ distance_squared(skip.start, other.end) <= min_spacing_sqr
    \/ distance_squared(skip.end, other.start) <= min_spacing_sqr
    \/ distance_squared(skip.end, other.start) <= min_spacing_sqr

\* the condition of the inner loop
Conflicts(skip, other, min_spacing_sqr) ==
    \/ distance_squared(skip.start, other.start) < min_spacing_sqr
    \/ distance_squared(skip.start, other.end) < min_spacing_sqr
    \/ distance_squared(skip.end, other.start) < min_spacing_sqr
    \/ distance_squared(skip.end, other.start) < min_spacing_sqr

\* the selection loop from skip_index on
RECURSIVE SelectFrom(_, _, _, _)
SelectFrom(skips, valid_skips, skip_index, min_spacing_sqr) ==
    IF skip_index > Len(skips)
    THEN valid_skips
    ELSE IF ~valid_skips[skip_index]
    THEN SelectFrom(skips, valid_skips, skip_index + 1, min_spacing_sqr)
    ELSE SelectFrom(skips,
                    [other_index \in 1 .. Len(skips) |->
                        /\ valid_skips[other_index]
                        /\ ~(/\ other_index > skip_index
                              /\ Conflicts(skips[skip_index], skips[other_index], min_spacing_sqr))],
                    skip_index + 1, min_spacing_sqr)

\* the loop that generates the remaining valid skips, from skip_index on
RECURSIVE GenerateFrom(_, _, _, _)
GenerateFrom(m, skips, valid_skips, skip_index) ==
    IF skip_index > Len(skips)
    THEN m
    ELSE GenerateFrom(IF valid_skips[skip_index]
                      THEN generate_skip(m, skips[skip_index].start, skips[skip_index].end,
                                         skips[skip_index].shift)
                      ELSE m,
                      skips, valid_skips, skip_index + 1)

\* generate_all_skips for one outcome of the sort; returns the map, the
\* sorted skips and valid_skips
generate_all_skips(m, skips, min_spacing_sqr) ==
    LET valid_skips == SelectFrom(skips, [i \in 1 .. Len(skips) |-> TRUE], 1, min_spacing_sqr)
    IN  [map |-> GenerateFrom(m, skips, valid_skips, 1), skips |-> skips,
         valid_skips |-> valid_skips]

----------------------------------------------------------------------------
(* The skip pass on a constructed map *)

\* a tunnel entrance on the middle row of a lying grid, built by forced
\* set_area calls: the Empty start cell at column s, the Freeze wall of
\* shape 1 or 2 (variant) on the side `towards`, then k Hookable cells, a
\* Freeze cell and the Empty end cell; the grid is stood up (x and y
\* swapped) when transposed
Entrance(m, transposed, s, towards, variant, k) ==
    LET T(p) == IF transposed THEN <<p[2], p[1]>> ELSE p
        row == window_size
        wall == s + towards
        lo == IF variant = 1 THEN row - 2 ELSE row - 1
        beside == IF variant = 1 THEN row + 1 ELSE row - 1
        far == s + towards * (k + 2)
        end == s + towards * (k + 3)
        m1 == set_area(m, T(<<wall, lo>>), T(<<wall, lo + 3>>), "Freeze", "Force")
        m2 == set_area(m1, T(<<s, beside>>), T(<<s, beside>>), "Freeze", "Force")
        m3 == set_area(m2, T(<<s, row>>), T(<<s, row>>), "Empty", "Force")
        m4 == set_area(m3, T(<<far, row>>), T(<<far, row>>), "Freeze", "Force")
    IN  set_area(m4, T(<<end, row>>), T(<<end, row>>), "Empty", "Force")

\* Map::new filled with Hookable
Solid(transposed) ==
    LET w == IF transposed THEN SkipShort ELSE SkipLong
        h == IF transposed THEN SkipLong ELSE SkipShort
    IN  set_area(MapNew(w, h), <<0, 0>>, <<w - 1, h - 1>>, "Hookable", "Force")

\* one entrance walking up the long side, and none or one walking down it
SkipMaps ==
    LET one == {[t |-> t, m |-> Entrance(Solid(t), t, window_size, 1, v, k)] :
                    t \in BOOLEAN, v \in 1 .. 2, k \in 1 .. 2}
    IN  {o.m : o \in one}
        \cup {Entrance(o.m, o.t, s, -1, v, k) :
                 o \in one, s \in {SkipLong - 4, SkipLong - 3}, v \in 1 .. 2, k \in 1 .. 2}

InitSkips ==
    /\ map \in SkipMaps
    /\ old = map
    /\ call = [name |-> "new"]
    /\ gen = "none"
    /\ cfg = "none"

CallGenerateAllSkips ==
    /\ call.name = "new"
    /\ \E min_length \in 0 .. MaxLength, min_spacing_sqr \in 0 .. MaxSpacingSqr :
       \E max_length \in min_length .. MaxLength :
       \E skips \in SortedByLength(PossibleSkips(map, <<min_length, max_length>>)) :
          LET r == generate_all_skips(map, skips, min_spacing_sqr)
          IN  /\ map' = r.map
              /\ call' = [name |-> "generate_all_skips",
                          length_bounds |-> <<min_length, max_length>>,
                          min_spacing_sqr |-> min_spacing_sqr,
                          skips |-> r.skips, valid_skips |-> r.valid_skips]
    /\ old' = map
    /\ UNCHANGED <<gen, cfg>>

CallCheckCornerSkip ==
    /\ call.name = "new"
    /\ \E init_pos \in DOMAIN map.grid, shift \in ShiftDirection :
       \E min_length \in 0 .. MaxLength :
       \E max_length \in min_length .. MaxLength :
          call' = [name |-> "check_corner_skip", init_pos |-> init_pos, shift |-> shift,
                   tunnel_bounds |-> <<min_length, max_length>>,
                   ret |-> check_corner_skip(map, init_pos, shift, <<min_length, max_length>>)]
    /\ UNCHANGED map
    /\ old' = map
    /\ UNCHANGED <<gen, cfg>>

NextSkips == CallGenerateAllSkips \/ CallCheckCornerSkip

SpecSkips == InitSkips /\ [][NextSkips]_vars

----------------------------------------------------------------------------
(* Claims on the skip pass *)

\* the indices of the accepted skips
Accepted == {i \in 1 .. Len(call.skips) : call.valid_skips[i]}

(* C10: after skip selection, for any two distinct accepted skips A and B,
   each of the four squared distances start(A)-start(B), start(A)-end(B),
   end(A)-start(B) and end(A)-end(B) is at least min_spacing_sqr. *)
C10_AcceptedSkipsSpaced ==
    call.name = "generate_all_skips"
        => \A a, b \in Accepted :
              a # b =>
                 /\ SqrDist(call.skips[a].start, call.skips[b].start) >= call.min_spacing_sqr
                 /\ SqrDist(call.skips[a].start, call.skips[b].end) >= call.min_spacing_sqr
                 /\ SqrDist(call.skips[a].end, call.skips[b].start) >= call.min_spacing_sqr
                 /\ SqrDist(call.skips[a].end, call.skips[b].end) >= call.min_spacing_sqr

\* the cell n shifts ahead of pos
Ahead(pos, shift, n) ==
    <<pos[1] + n * (IF shift = "Right" THEN 1 ELSE IF shift = "Left" THEN -1 ELSE 0),
      pos[2] + n * (IF shift = "Down" THEN 1 ELSE IF shift = "Up" THEN -1 ELSE 0)>>

\* the len cells after pos lie in the grid and are one or more Freeze, one or
\* more Hookable, one or more Freeze and one Empty cell
TunnelAhead(m, pos, shift, len) ==
    /\ \A n \in 1 .. len : Ahead(pos, shift, n) \in DOMAIN m.grid
    /\ \E a, b \in 1 .. len :
          /\ a < b /\ b < len - 1
          /\ \A n \in 1 .. len :
                m.grid[Ahead(pos, shift, n)] =
                   IF n <= a THEN "Freeze"
                   ELSE IF n <= b THEN "Hookable"
                   ELSE IF n < len THEN "Freeze"
                   ELSE "Empty"

\* the lengths a walk can have on the map
WalkLengths(m) == 1 .. (m.w + m.h)

\* generate_all_skips recorded a skip for the candidate with this length
HasRecord(candidate, len) ==
    \E k \in 1 .. Len(call.skips) :
       /\ call.skips[k].start = candidate[1]
       /\ call.skips[k].shift = candidate[2]
       /\ call.skips[k].length = len

(* C19: a corner candidate whose forward walk reaches the accept stage after
   L steps becomes a skip record if and only if min_length <= L <= max_length,
   both bounds inclusive. *)
C19_RecordIffWithinBounds ==
    call.name = "generate_all_skips"
        => LET corner_candidates == find_corners(old)
           IN  \A i \in 1 .. Len(corner_candidates), len \in WalkLengths(old) :
                  TunnelAhead(old, corner_candidates[i][1], corner_candidates[i][2], len)
                     => (HasRecord(corner_candidates[i], len)
                            <=> (call.length_bounds[1] <= len /\ len <= call.length_bounds[2]))

(* C20: check_corner_skip returns a skip only when the cells visited after the
   start, in walking order, are one or more Freeze, one or more Hookable, one
   or more Freeze and then one Empty cell, which is the returned end
   position; any other sequence, or leaving the grid, yields no skip; the
   walk makes at most max_length shifts. *)
C20_SkipOnlyThroughTunnel ==
    call.name = "check_corner_skip"
        => IF call.ret[1] = "Some"
           THEN /\ call.ret[3] <= call.tunnel_bounds[2]
                /\ call.ret[2] = Ahead(call.init_pos, call.shift, call.ret[3])
                /\ TunnelAhead(old, call.init_pos, call.shift, call.ret[3])
           ELSE call.ret[2] <= call.tunnel_bounds[2]

\* a skip of length 5 through two Hookable cells, returned for bounds that
\* end at 5
C20_Witness ==
    /\ call.name = "check_corner_skip"
    /\ call.ret[1] = "Some"
    /\ call.ret[3] = 5
    /\ call.tunnel_bounds[2] = 5
    /\ old.grid[Ahead(call.init_pos, call.shift, 3)] = "Hookable"

----------------------------------------------------------------------------
(* The selection loop of generate_all_skips on pushed skip records *)

\* the cells of a tunnel, its two ends included
TunnelCells(skip) == {Ahead(skip.start, skip.shift, n) : n \in 0 .. skip.length}

\* the records check_corner_skip can return on one row of a grid SelectWidth
\* wide: the start is a window centre, the end lies `length` shifts ahead,
\* and a tunnel (Freeze, Hookable, Freeze, Empty at the least) is 4 or more
\* shifts long
RowSkips ==
    {skip \in [start : (window_size .. SelectWidth - window_size - 1) \X {window_size},
               end : (0 .. SelectWidth - 1) \X {window_size},
               shift : {"Left", "Right"},
               length : 4 .. MaxLength] :
        skip.end = Ahead(skip.start, skip.shift, skip.length)}

\* up to three records in the order the corner scan pushes them, their
\* tunnels sharing no cell
PushedSkips ==
    LET Apart(a, b) == TunnelCells(a) \cap TunnelCells(b) = {}
        After(a) == {b \in RowSkips : b.start[1] > a.start[1] /\ Apart(a, b)}
    IN  {<<a>> : a \in RowSkips}
        \cup UNION {{<<a, b>> : b \in After(a)} : a \in RowSkips}
        \cup UNION {UNION {{<<a, b, c>> : c \in {d \in After(b) : Apart(a, d)}} :
                              b \in After(a)} :
                        a \in RowSkips}

InitSelect ==
    /\ map = MapNew(SelectWidth, SkipShort)
    /\ old = map
    /\ call \in {[name |-> "possible_skips", skips |-> skips] : skips \in PushedSkips}
    /\ gen = "none"
    /\ cfg = "none"

\* the sort and the selection loop
CallSelectSkips ==
    /\ call.name = "possible_skips"
    /\ \E min_spacing_sqr \in 0 .. MaxSpacingSqr :
       \E skips \in SortedByLength(call.skips) :
          call' = [name |-> "select_skips", min_spacing_sqr |-> min_spacing_sqr,
                   skips |-> skips,
                   valid_skips |-> SelectFrom(skips, [i \in 1 .. Len(skips) |-> TRUE], 1,
                                              min_spacing_sqr)]
    /\ UNCHANGED <<map, old, gen, cfg>>

NextSelect == CallSelectSkips

SpecSelect == InitSelect /\ [][NextSelect]_vars

\* an endpoint of a is closer than the spacing to an endpoint of b
EndpointsConflict(a, b, min_spacing_sqr) ==
    \E p \in {a.start, a.end}, q \in {b.start, b.end} : distance_squared(p, q) < min_spacing_sqr

\* record j is accepted and one of its endpoints conflicts with one of record i
AcceptedConflict(j, i) ==
    /\ call.valid_skips[j]
    /\ EndpointsConflict(call.skips[j], call.skips[i], call.min_spacing_sqr)

(* C23: skip selection is greedy by ascending length: a record is discarded
   only if one of its endpoints conflicts with an endpoint of an accepted
   record that precedes it in the sorted order, which is no longer than it;
   a record that conflicts only with discarded records is accepted, and the
   shortest record is always accepted. *)
C23_GreedyByLength ==
    call.name \in {"generate_all_skips", "select_skips"}
        => /\ \A i \in 1 .. Len(call.skips) :
                 /\ ~call.valid_skips[i]
                       => \E j \in 1 .. i - 1 :
                             /\ AcceptedConflict(j, i)
                             /\ call.skips[j].length <= call.skips[i].length
                 /\ (\A j \in 1 .. i - 1 : ~AcceptedConflict(j, i)) => call.valid_skips[i]
           /\ Len(call.skips) >= 1 => call.valid_skips[1]

\* a record was discarded, and a later record that conflicts with the
\* discarded one and with no accepted one was accepted
C23_Witness ==
    /\ call.name = "select_skips"
    /\ \E i, k \in 1 .. Len(call.skips) :
          /\ i < k
          /\ ~call.valid_skips[i]
          /\ call.valid_skips[k]
          /\ EndpointsConflict(call.skips[i], call.skips[k], call.min_spacing_sqr)
          /\ call.skips[i].length < call.skips[k].length

----------------------------------------------------------------------------
(* The skip pass on maps with a Freeze buffer *)

\* the Hookable blocks next to an Empty block are frozen, as the outer
\* kernel of the carve leaves them
RECURSIVE BufferAround(_, _)
BufferAround(m, cells) ==
    IF cells = {}
    THEN m
    ELSE LET p == CHOOSE q \in cells : TRUE
             lo == <<IF p[1] > 0 THEN p[1] - 1 ELSE 0, IF p[2] > 0 THEN p[2] - 1 ELSE 0>>
             hi == <<IF p[1] < m.w - 1 THEN p[1] + 1 ELSE p[1],
                     IF p[2] < m.h - 1 THEN p[2] + 1 ELSE p[2]>>
         IN  BufferAround(set_area(m, lo, hi, "Freeze", "ReplaceSolidOnly"), cells \ {p})

Buffered(m) == BufferAround(m, {p \in DOMAIN m.grid : m.grid[p] = "Empty"})

\* a block beside the first tunnel, two columns after its start: left as it
\* is, or a Platform, or a reserved empty block
Beside(m, block) ==
    LET p == IF m.w = SkipLong
             THEN <<window_size + 2, window_size + 1>>
             ELSE <<window_size + 1, window_size + 2>>
    IN  set_area(m, p, p, block, "Force")

BufferMaps ==
    {Buffered(m) : m \in SkipMaps}
    \cup {Buffered(Beside(m, block)) : m \in SkipMaps, block \in {"Platform", "EmptyReserved"}}

InitBuffer ==
    /\ map \in BufferMaps
    /\ old = map
    /\ call = [name |-> "new"]
    /\ gen = "none"
    /\ cfg = "none"

CallSkipPass ==
    /\ call.name = "new"
    /\ \E min_length \in 0 .. MaxLength, min_spacing_sqr \in 0 .. MaxSpacingSqr :
       \E max_length \in min_length .. MaxLength :
       \E skips \in SortedByLength(PossibleSkips(map, <<min_length, max_length>>)) :
       \E r \in {generate_all_skips(map, skips, min_spacing_sqr)} :
          /\ map' = r.map
          /\ call' = [name |-> "generate_all_skips",
                      length_bounds |-> <<min_length, max_length>>,
                      min_spacing_sqr |-> min_spacing_sqr,
                      skips |-> r.skips, valid_skips |-> r.valid_skips]
    /\ old' = map
    /\ UNCHANGED <<gen, cfg>>

\* one skip record generated on its own
CallGenerateSkip ==
    /\ call.name = "new"
    /\ \E skips \in {PossibleSkips(map, <<0, MaxLength>>)} :
       \E i \in 1 .. Len(skips) :
          /\ map' = generate_skip(map, skips[i].start, skips[i].end, skips[i].shift)
          /\ call' = [name |-> "generate_skip", skip |-> skips[i]]
    /\ old' = map
    /\ UNCHANGED <<gen, cfg>>

NextBuffer == CallSkipPass \/ CallGenerateSkip

SpecBuffer == InitBuffer /\ [][NextBuffer]_vars

\* p lies between a and b
Between(a, p, b) == (a <= p /\ p <= b) \/ (b <= p /\ p <= a)

\* p is in the bounding rectangle of the skip
SkipRectangle(skip, p) ==
    /\ Between(skip.start[1], p[1], skip.end[1])
    /\ Between(skip.start[2], p[2], skip.end[2])

\* p is in one of the two strips beside the rectangle, perpendicular to
\* the shift
SkipStrips(skip, p) ==
    IF skip.shift \in {"Left", "Right"}
    THEN /\ Between(skip.start[1], p[1], skip.end[1])
         /\ \E y \in {p[2] - 1, p[2] + 1} : Between(skip.start[2], y, skip.end[2])
    ELSE /\ Between(skip.start[2], p[2], skip.end[2])
         /\ \E x \in {p[1] - 1, p[1] + 1} : Between(skip.start[1], x, skip.end[1])

\* what a skip may have done to cell p
ChangedBySkip(skip, p) ==
    \/ /\ SkipRectangle(skip, p)
       /\ old.grid[p] \in {"Hookable", "Freeze"}
       /\ map.grid[p] = "Empty"
    \/ /\ SkipStrips(skip, p)
       /\ old.grid[p] = "Hookable"
       /\ map.grid[p] = "Freeze"

NoEdgeBug(m) == \A p \in DOMAIN m.grid : ~(m.grid[p] = "Empty" /\ TouchesHookable(m, p))

(* C24: the skip pass keeps the hazard buffer: if no Empty cell had a
   Hookable 3x3 neighbour before the pass, none has one after it; a cell
   changed by the pass, or by one generate_skip call, was Hookable or Freeze
   in the rectangle of an accepted skip and is Empty, or was Hookable in one
   of its two perpendicular strips and is Freeze; no other cell changes. *)
C24_SkipKeepsBuffer ==
    /\ call.name = "generate_all_skips"
          => /\ NoEdgeBug(old) => NoEdgeBug(map)
             /\ \A p \in DOMAIN old.grid :
                   map.grid[p] # old.grid[p]
                      => \E i \in 1 .. Len(call.skips) :
                            call.valid_skips[i] /\ ChangedBySkip(call.skips[i], p)
    /\ call.name = "generate_skip"
          => /\ NoEdgeBug(old) => NoEdgeBug(map)
             /\ \A p \in DOMAIN old.grid :
                   map.grid[p] # old.grid[p] => ChangedBySkip(call.skip, p)

\* a pass over a buffered map has emptied a tunnel and frozen a Hookable
\* block of a strip, next to a Platform of the strip which it has kept
C24_Witness ==
    /\ call.name = "generate_all_skips"
    /\ NoEdgeBug(old)
    /\ \E i \in 1 .. Len(call.skips) :
          /\ call.valid_skips[i]
          /\ \E p \in DOMAIN old.grid :
                /\ SkipRectangle(call.skips[i], p)
                /\ old.grid[p] = "Hookable" /\ map.grid[p] = "Empty"
          /\ \E p \in DOMAIN old.grid :
                /\ SkipStrips(call.skips[i], p)
                /\ old.grid[p] = "Hookable" /\ map.grid[p] = "Freeze"
          /\ \E p \in DOMAIN old.grid :
                /\ SkipStrips(call.skips[i], p)
                /\ old.grid[p] = "Platform" /\ map.grid[p] = "Platform"

----------------------------------------------------------------------------
(* src/post_processing.rs: get_window, remove_freeze_blobs *)

blob_window_size == 1

\* get_window panics: x - window_size underflows, or the slice ends
\* outside the grid
GetWindowPanics(m, pos) ==
    \/ pos[1] < blob_window_size \/ pos[2] < blob_window_size
    \/ pos[1] + blob_window_size >= m.w \/ pos[2] + blob_window_size >= m.h

\* window.indexed_iter(): (win_x, win_y), win_y running fastest
WindowIndices ==
    [i \in 1 .. 9 |-> <<(i - 1) \div 3, (i - 1) % 3>>]

\* the for loop over the window of pos from index i on; returns what it
\* pushed onto visit_next and whether it met a solid block
RECURSIVE ScanWindow(_, _, _, _, _)
ScanWindow(m, marked, pos, i, pushed) ==
    IF i > Len(WindowIndices)
    THEN [pushed |-> pushed, solid |-> FALSE]
    ELSE LET win == WindowIndices[i]
             abs_pos == <<pos[1] + win[1] - 1, pos[2] + win[2] - 1>>
             block_type == m.grid[abs_pos]
         IN  IF win = <<1, 1>>
             THEN ScanWindow(m, marked, pos, i + 1, pushed)
             ELSE IF is_solid(block_type)
             THEN [pushed |-> pushed, solid |-> TRUE]
             ELSE IF marked[abs_pos] \/ ~is_freeze(block_type)
             THEN ScanWindow(m, marked, pos, i + 1, pushed)
             ELSE ScanWindow(m, marked, pos, i + 1, Append(pushed, abs_pos))

\* the while loop over visit_next
RECURSIVE VisitAll(_, _, _, _, _)
VisitAll(m, marked, visit_next, visited, unconnected) ==
    IF visit_next = <<>>
    THEN [marked |-> marked, visited |-> visited, unconnected |-> unconnected, panic |-> FALSE]
    ELSE LET pos == visit_next[Len(visit_next)]
             rest == SubSeq(visit_next, 1, Len(visit_next) - 1)
             marked1 == [marked EXCEPT ![pos] = TRUE]
         IN  IF GetWindowPanics(m, pos)
             THEN [marked |-> marked1, visited |-> visited, unconnected |-> unconnected,
                   panic |-> TRUE]
             ELSE LET scan == ScanWindow(m, marked1, pos, 1, <<>>)
                  IN  VisitAll(m, marked1, rest \o scan.pushed, Append(visited, pos),
                               unconnected /\ ~scan.solid)

\* the cells the two outer loops start from, x outermost
BlobStarts(m) ==
    SelectSeq(CellSeq(m.w, m.h),
              LAMBDA c : /\ c[1] >= blob_window_size /\ c[1] < m.w - blob_window_size
                         /\ c[2] >= blob_window_size /\ c[2] < m.h - blob_window_size)

\* the outer loops from the i-th start on; blobs are the dbg! reports, each
\* [visited, blob_size]
RECURSIVE BlobScan(_, _, _, _, _, _)
BlobScan(m, starts, i, marked, blobs_debug, blobs) ==
    IF i > Len(starts)
    THEN [blobs_debug |-> blobs_debug, blobs |-> blobs, ret |-> "Ok"]
    ELSE LET c == starts[i]
         IN  IF marked[c]
             THEN BlobScan(m, starts, i + 1, marked, blobs_debug, blobs)
             ELSE IF m.grid[c] # "Freeze"
             THEN BlobScan(m, starts, i + 1, [marked EXCEPT ![c] = TRUE], blobs_debug, blobs)
             ELSE LET v == VisitAll(m, marked, <<c>>, <<>>, TRUE)
                      found == {v.visited[k] : k \in 1 .. Len(v.visited)}
                  IN  IF v.panic
                      THEN [blobs_debug |-> blobs_debug, blobs |-> blobs, ret |-> "Panic"]
                      ELSE IF v.unconnected
                      THEN BlobScan(m, starts, i + 1, v.marked,
                                    [p \in DOMAIN blobs_debug |-> blobs_debug[p] \/ p \in found],
                                    Append(blobs, [visited |-> v.visited,
                                                   blob_size |-> Len(v.visited)]))
                      ELSE BlobScan(m, starts, i + 1, v.marked, blobs_debug, blobs)

\* returns the map, the blobs_debug layer, the reports and Ok or Panic
remove_freeze_blobs(m, min_freeze_size) ==
    LET r == BlobScan(m, BlobStarts(m), 1, [p \in DOMAIN m.grid |-> FALSE],
                      [p \in DOMAIN m.grid |-> FALSE], <<>>)
    IN  [map |-> m, blobs_debug |-> r.blobs_debug, blobs |-> r.blobs, ret |-> r.ret]

----------------------------------------------------------------------------
(* The blob pass on a constructed map *)

InitBlobs ==
    /\ map \in PostMaps
    /\ old = map
    /\ call = [name |-> "new"]
    /\ gen = "none"
    /\ cfg = "none"

CallRemoveFreezeBlobs ==
    /\ call.name = "new"
    /\ \E min_freeze_size \in 0 .. MaxFreezeSize :
          LET r == remove_freeze_blobs(map, min_freeze_size)
          IN  /\ map' = r.map
              /\ call' = [name |-> "remove_freeze_blobs", min_freeze_size |-> min_freeze_size,
                          blobs_debug |-> r.blobs_debug, blobs |-> r.blobs, ret |-> r.ret]
    /\ old' = map
    /\ UNCHANGED <<gen, cfg>>

NextBlobs == CallRemoveFreezeBlobs

SpecBlobs == InitBlobs /\ [][NextBlobs]_vars

----------------------------------------------------------------------------
(* Claims on the blob pass *)

(* C12: after the freeze-blob removal pass has run on a grid, every Freeze
   cell remaining in the grid is adjacent to at least one Hookable cell; in
   particular no cell of an isolated Freeze blob is still Freeze. *)
C12_NoIsolatedFreezeLeft ==
    (call.name = "remove_freeze_blobs" /\ call.ret = "Ok")
        => \A p \in DOMAIN map.grid :
              /\ map.grid[p] = "Freeze" => TouchesHookable(map, p)
              /\ call.blobs_debug[p] => map.grid[p] # "Freeze"

\* the 4-direction-connected component of Freeze cells that holds the cells S
RECURSIVE Grow4(_, _)
Grow4(m, S) ==
    LET Joined(next) == IF next = S THEN S ELSE Grow4(m, next)
    IN  Joined(S \cup {q \in DOMAIN m.grid :
                          is_freeze(m.grid[q]) /\ \E p \in S : SqrDist(p, q) = 1})

FreezeComponent(m, p) == Grow4(m, {p})

\* no cell of S has a Hookable block in its 3x3 neighbourhood
Isolated(m, S) == \A q \in S : ~TouchesHookable(m, q)

\* the cells of the k-th reported blob
BlobCells(k) == {call.blobs[k].visited[i] : i \in 1 .. Len(call.blobs[k].visited)}

(* C21: remove_freeze_blobs flags a set of cells as a blob exactly when the
   set is a complete 4-direction-connected component of Freeze cells none
   of which has a Hookable block in its 3x3 neighbourhood; no Freeze cell
   of a component that holds a cell next to a Hookable block is flagged. *)
C21_BlobsAreIsolatedComponents ==
    (call.name = "remove_freeze_blobs" /\ call.ret = "Ok")
        => /\ \A k \in 1 .. Len(call.blobs) :
                 /\ BlobCells(k) = FreezeComponent(old, call.blobs[k].visited[1])
                 /\ Isolated(old, BlobCells(k))
           /\ \A p \in DOMAIN old.grid :
                 (is_freeze(old.grid[p]) /\ Isolated(old, FreezeComponent(old, p)))
                     => \E k \in 1 .. Len(call.blobs) : BlobCells(k) = FreezeComponent(old, p)
           /\ \A p \in DOMAIN old.grid :
                 call.blobs_debug[p] => Isolated(old, FreezeComponent(old, p))

(* C22: during one run of remove_freeze_blobs every cell is taken from the
   work-list and processed at most once: the list of visited cells of a
   component has no duplicates and the reported blob size is the number of
   distinct cells in it. *)
C22_VisitedOnce ==
    (call.name = "remove_freeze_blobs" /\ call.ret = "Ok")
        => \A k \in 1 .. Len(call.blobs) :
              /\ \A i, j \in 1 .. Len(call.blobs[k].visited) :
                    i # j => call.blobs[k].visited[i] # call.blobs[k].visited[j]
              /\ call.blobs[k].blob_size = Cardinality(BlobCells(k))

----------------------------------------------------------------------------
(* editor/src/gui.rs: random_dist_cfg_edit.  A RandomDistConfig is
   [values, probs, den]: values is <<"None">> or <<"Some", list>>, and the
   probability of entry i is probs[i] / den, kept in lowest terms. *)

RECURSIVE Gcd(_, _)
Gcd(a, b) == IF b = 0 THEN a ELSE Gcd(b, a % b)

RECURSIVE SeqSum(_)
SeqSum(q) == IF q = <<>> THEN 0 ELSE Head(q) + SeqSum(Tail(q))

RECURSIVE SeqGcd(_)
SeqGcd(q) == IF q = <<>> THEN 0 ELSE Gcd(Head(q), SeqGcd(Tail(q)))

\* the same probabilities in lowest terms
Reduced(c) ==
    LET g == Gcd(c.den, SeqGcd(c.probs))
    IN  IF g <= 1
        THEN c
        ELSE [c EXCEPT !.probs = [i \in 1 .. Len(c.probs) |-> c.probs[i] \div g],
                       !.den = c.den \div g]

\* RandomDistConfig::normalize_probs (random.rs): the probabilities are
\* divided by their sum, and made equal when they are all zero
normalize_probs(c) ==
    LET probs_sum == SeqSum(c.probs)
    IN  IF probs_sum = 0
        THEN [c EXCEPT !.probs = [i \in 1 .. Len(c.probs) |-> 1], !.den = Len(c.probs)]
        ELSE Reduced([c EXCEPT !.den = probs_sum])

\* edit_f32_prob moved the slider of entry index to k / SliderStops
edit_f32_prob(c, index, k) ==
    [c EXCEPT !.probs = [i \in 1 .. Len(c.probs) |->
                            IF i = index THEN k * c.den ELSE c.probs[i] * SliderStops],
              !.den = c.den * SliderStops]

\* the Default::default() pushed for a new value
DefaultValue == 0

ElementValues == {DefaultValue, 1}

\* mutant: the last entry may be removed as well
MinusPops_LastToo(len) == len > 0

\* ui.button("-").clicked() && cfg.probs.len() > 1
MinusPops(len) == len > 1

\* what the user did in the frame: nothing, a slider, the element editor,
\* the "+" or the "-" button
Interactions(c, with_edit_element, fixed_size) ==
    {[kind |-> "none"]}
      \cup {[kind |-> "slider", index |-> i, k |-> k] :
                i \in 1 .. Len(c.probs), k \in 0 .. SliderStops}
      \cup (IF c.values[1] = "Some" /\ with_edit_element
            THEN {[kind |-> "element", index |-> i, value |-> v] :
                     i \in 1 .. Len(c.probs), v \in ElementValues}
            ELSE {})
      \cup (IF fixed_size THEN {} ELSE {[kind |-> "plus"], [kind |-> "minus"]})

\* the body of random_dist_cfg_edit before normalize_probs
Edited(c, ui) ==
    LET dist_has_values == c.values[1] = "Some"
    IN  CASE ui.kind = "none" -> c
          [] ui.kind = "slider" -> edit_f32_prob(c, ui.index, ui.k)
          [] ui.kind = "element" ->
                [c EXCEPT !.values = <<"Some", [c.values[2] EXCEPT ![ui.index] = ui.value]>>]
          [] ui.kind = "plus" ->
                \* cfg.probs.push(0.1)
                [values |-> IF dist_has_values
                            THEN <<"Some", Append(c.values[2], DefaultValue)>>
                            ELSE c.values,
                 probs |-> [i \in 1 .. Len(c.probs) |-> c.probs[i] * 10] \o <<c.den>>,
                 den |-> c.den * 10]
          [] ui.kind = "minus" ->
                IF MinusPops(Len(c.probs))
                THEN [c EXCEPT
                        !.values = IF dist_has_values
                                   THEN <<"Some", SubSeq(c.values[2], 1, Len(c.values[2]) - 1)>>
                                   ELSE c.values,
                        !.probs = SubSeq(c.probs, 1, Len(c.probs) - 1)]
                ELSE c

random_dist_cfg_edit(c, ui) == normalize_probs(Edited(c, ui))

\* a one-entry distribution, with or without values
InitDist ==
    /\ map = MapNew(0, 0)
    /\ old = map
    /\ gen = "none"
    /\ cfg \in {[values |-> v, probs |-> <<1>>, den |-> 1] :
                   v \in {<<"None">>, <<"Some", <<DefaultValue>>>>}}
    /\ call = [name |-> "new"]

CallRandomDistCfgEdit ==
    /\ \E ui \in UNION {Interactions(cfg, with_edit_element, fixed_size) :
                         with_edit_element \in BOOLEAN, fixed_size \in BOOLEAN} :
          LET c == random_dist_cfg_edit(cfg, ui)
          IN  /\ Len(c.probs) <= MaxEntries
              /\ c.den <= MaxDen
              /\ cfg' = c
              /\ call' = [name |-> "random_dist_cfg_edit", ui |-> ui, before |-> cfg]
    /\ UNCHANGED <<map, old, gen>>

NextDist == CallRandomDistCfgEdit

SpecDist == InitDist /\ [][NextDist]_vars

(* C17: after every edit of a random distribution config through
   random_dist_cfg_edit (adding an entry, removing an entry or changing a
   probability, in any sequence), the probabilities sum to 1, the
   distribution keeps at least one entry, and when values are present the
   value list has as many entries as the probability list. *)
C17_DistributionNormalized ==
    call.name = "random_dist_cfg_edit"
        => /\ cfg.den > 0
           /\ SeqSum(cfg.probs) = cfg.den
           /\ Len(cfg.probs) >= 1
           /\ cfg.values[1] = "Some" => Len(cfg.values[2]) = Len(cfg.probs)

\* the "-" button clicked on a one-entry distribution with values, which was
\* reached by removing entries from a longer one
C17_Witness ==
    /\ call.name = "random_dist_cfg_edit"
    /\ call.ui.kind = "minus"
    /\ Len(call.before.probs) = 1
    /\ call.before.values[1] = "Some"
    /\ cfg = call.before

----------------------------------------------------------------------------
(* src/generator.rs: Generator::new, step, post_processing, generate_map.
   A generator is the map together with gen = [walker, rnd, spawn, ...].
   The walker (walker.rs), the random source (random.rs), the validation of
   a config (config.rs) and Map::generate_room (map.rs) are written after
   the description of the system; step, post_processing and generate_map
   call them in the order of generator.rs. *)

\* Random: every draw returns the state and advances it
RandomNew(seed) == seed % RndRange

RandomAdvance(rnd) == (5 * rnd + 3) % RndRange

\* Random::with_probability, the probability being <<numerator, denominator>>;
\* returns <<bool, rnd>>
with_probability(rnd, prob) == <<rnd * prob[2] < prob[1] * RndRange, RandomAdvance(rnd)>>

\* a uniform choice among the n entries 1 .. n; returns <<index, rnd>>
random_index(rnd, n) == <<(rnd % n) + 1, RandomAdvance(rnd)>>

\* the sum of the first i probabilities
RECURSIVE PartialSum(_, _)
PartialSum(probs, i) == IF i = 0 THEN 0 ELSE probs[i] + PartialSum(probs, i - 1)

\* a weighted choice among the entries of a normalized distribution
\* [probs, den]; returns <<index, rnd>>
sample(rnd, dist) ==
    LET Reached(i) == rnd * dist.den < PartialSum(dist.probs, i) * RndRange
    IN  <<CHOOSE i \in 1 .. Len(dist.probs) :
              Reached(i) /\ \A j \in 1 .. i - 1 : ~Reached(j),
          RandomAdvance(rnd)>>

\* GenerationConfig::validate: waypoints are present and the step
\* distribution is normalized
validate(config) ==
    IF config.waypoints = <<>>
    THEN <<"Err", "empty waypoints">>
    ELSE IF SeqSum(config.step_weights.probs) # config.step_weights.den
    THEN <<"Err", "step weights not normalized">>
    ELSE <<"Ok", "unit">>

\* a kernel of the walker: the square of the size cut at the distance of
\* the cell <<center, offset>> from the centre
WalkerKernel(size, offset) ==
    LET center == get_kernel_center(size)
    IN  KernelNew(size, <<center, IF offset <= center THEN offset ELSE center>>)

\* CuteWalker::new
CuteWalkerNew(initial_pos, inner_kernel, outer_kernel, config) ==
    [pos |-> initial_pos,
     inner_kernel |-> inner_kernel,
     outer_kernel |-> outer_kernel,
     waypoints |-> config.waypoints,
     goal_index |-> 1,
     finished |-> FALSE,
     steps |-> 0,
     last_platform |-> 0]

\* the active waypoint: Option<Position>
WalkerGoal(walker) ==
    IF walker.finished \/ walker.goal_index > Len(walker.waypoints)
    THEN <<"None">>
    ELSE <<"Some", walker.waypoints[walker.goal_index]>>

\* CuteWalker::is_goal_reached: Option<bool>
is_goal_reached(walker, waypoint_reached_dist) ==
    IF WalkerGoal(walker)[1] = "None"
    THEN <<"None">>
    ELSE <<"Some", distance_squared(WalkerGoal(walker)[2], walker.pos) <= waypoint_reached_dist>>

\* CuteWalker::next_waypoint
next_waypoint(walker) ==
    IF walker.goal_index + 1 <= Len(walker.waypoints)
    THEN [walker EXCEPT !.goal_index = walker.goal_index + 1]
    ELSE [walker EXCEPT !.finished = TRUE]

\* the odd sizes within (min, max), ascending
SizesWithin(size_bounds) ==
    LET odd == {s \in size_bounds[1] .. size_bounds[2] : s % 2 = 1}
        n == Cardinality(odd)
    IN  [i \in 1 .. n |-> CHOOSE s \in odd : Cardinality({t \in odd : t < s}) = i - 1]

\* the mutation of one kernel: its size with probability size_mut_prob, its
\* radius with probability rad_mut_prob; returns <<kernel, rnd>>
MutateOne(kernel, size_bounds, size_mut_prob, rad_mut_prob, rnd) ==
    LET sizes == SizesWithin(size_bounds)
        \* the radius, the size and the random source being size and r
        Radius(size, r) ==
            LET Gated(rad_gate) ==
                    IF rad_gate[1]
                    THEN LET Picked(rad_pick) == <<WalkerKernel(size, rad_pick[1] - 1), rad_pick[2]>>
                         IN  Picked(random_index(rad_gate[2], get_kernel_center(size) + 1))
                    ELSE <<WalkerKernel(size, kernel.limiting_offset[2]), rad_gate[2]>>
            IN  Gated(with_probability(r, rad_mut_prob))
        Size(size_gate) ==
            IF size_gate[1] /\ sizes # <<>>
            THEN LET Picked(size_pick) == Radius(sizes[size_pick[1]], size_pick[2])
                 IN  Picked(random_index(size_gate[2], Len(sizes)))
            ELSE Radius(kernel.size, size_gate[2])
    IN  Size(with_probability(rnd, size_mut_prob))

\* CuteWalker::mutate_kernel; returns <<walker, rnd>>
mutate_kernel(walker, config, rnd) ==
    LET Outer(inner) ==
            LET Both(outer) ==
                    <<[walker EXCEPT !.inner_kernel = inner[1], !.outer_kernel = outer[1]],
                      outer[2]>>
            IN  Both(MutateOne(walker.outer_kernel, config.outer_size_bounds,
                               config.outer_size_mut_prob, config.outer_rad_mut_prob, inner[2]))
    IN  Outer(MutateOne(walker.inner_kernel, config.inner_size_bounds,
                        config.inner_size_mut_prob, config.inner_rad_mut_prob, rnd))

\* the four directions in the order the ranking starts from
ShiftSeq == <<"Up", "Right", "Down", "Left">>

\* the position one cell in the direction, off the grid or not
Shifted(pos, shift) ==
    <<pos[1] + (IF shift = "Right" THEN 1 ELSE IF shift = "Left" THEN -1 ELSE 0),
      pos[2] + (IF shift = "Down" THEN 1 ELSE IF shift = "Up" THEN -1 ELSE 0)>>

\* the directions ranked by the distance to the goal they leave, the
\* nearest first, equal distances in the order of ShiftSeq
get_rated_shifts(pos, goal) ==
    LET Rate(i) == distance_squared(Shifted(pos, ShiftSeq[i]), goal)
        Precedes(i, j) == Rate(i) < Rate(j) \/ (Rate(i) = Rate(j) /\ i < j)
        Rank(i) == Cardinality({j \in 1 .. Len(ShiftSeq) : Precedes(j, i)}) + 1
    IN  [r \in 1 .. Len(ShiftSeq) |-> ShiftSeq[CHOOSE i \in 1 .. Len(ShiftSeq) : Rank(i) = r]]

\* CuteWalker::probabilistic_step: the move and the carve with the inner and
\* then the outer kernel; returns [map, walker, rnd, ret]
probabilistic_step(m, walker, config, rnd) ==
    LET Result(after, w, r, ret) == [map |-> after, walker |-> w, rnd |-> r, ret |-> ret]
        Carve(moved, r) ==
            LET Outer(inner) ==
                    LET Both(outer) ==
                            Result(outer[1], moved, r,
                                   IF inner[2] /\ outer[2]
                                   THEN <<"Ok", "unit">>
                                   ELSE <<"Err", "kernel out of bounds">>)
                    IN  Both(apply_kernel(inner[1], moved.pos, moved.outer_kernel, "Freeze"))
            IN  Outer(apply_kernel(m, moved.pos, moved.inner_kernel, "Empty"))
        Move(shifted, r) ==
            IF shifted[1] = "Err"
            THEN Result(m, walker, r, shifted)
            ELSE Carve([walker EXCEPT !.pos = shifted[2], !.steps = walker.steps + 1], r)
        Sampled(shifts, sampled) ==
            IF sampled[1] > Len(shifts)
            THEN Result(m, walker, sampled[2], <<"Err", "invalid step weights">>)
            ELSE Move(shift_in_direction(walker.pos, shifts[sampled[1]], m), sampled[2])
    IN  IF WalkerGoal(walker)[1] = "None"
        THEN Result(m, walker, rnd, <<"Err", "no goal">>)
        ELSE Sampled(get_rated_shifts(walker.pos, WalkerGoal(walker)[2]),
                     sample(rnd, config.step_weights))

\* CuteWalker::check_platform: a Platform block under the walker once
\* min_distance steps were made since the last one; returns <<map, walker, ret>>
check_platform(m, walker, min_distance, max_distance) ==
    IF walker.steps - walker.last_platform < min_distance
    THEN <<m, walker, <<"Ok", "unit">>>>
    ELSE LET below == Shifted(walker.pos, "Down")
         IN  IF ~pos_in_bounds(m, below)
             THEN <<m, walker, <<"Err", "platform out of bounds">>>>
             ELSE <<set_area(m, below, below, "Platform", "ReplaceEmptyOnly"),
                    [walker EXCEPT !.last_platform = walker.steps], <<"Ok", "unit">>>>

\* Map::new(width, height, default, spawn) of the generator's map; the spawn
\* is kept in gen
GenMapNew(width, height, default) ==
    [MapNew(width, height) EXCEPT !.grid = [p \in Cells(width, height) |-> default]]

\* the spawn of Generator::new, (50, 250) on the 300 x 300 map: here the
\* centre of the grid
Spawn == <<GenSize \div 2, GenSize \div 2>>

init_inner_size == 5
init_outer_size == 7

\* Generator::new; returns [map, walker, rnd, spawn]
GeneratorNew(config, seed) ==
    LET init_inner_kernel == WalkerKernel(init_inner_size, init_inner_size)
        init_outer_kernel == WalkerKernel(init_outer_size, init_outer_size)
    IN  [map |-> GenMapNew(GenSize, GenSize, "Hookable"),
         walker |-> CuteWalkerNew(Spawn, init_inner_kernel, init_outer_kernel, config),
         rnd |-> RandomNew(seed),
         spawn |-> Spawn]

\* mutant: the walker is stepped whether finished or not
WalkerSteps_Always(walker) == TRUE

\* if !self.walker.finished
WalkerSteps(walker) == ~walker.finished

\* the body of that if; returns [map, gen, ret]
StepBody(m, g, config) ==
    LET Platform(stepped, platform) ==
            [map |-> platform[1],
             gen |-> [g EXCEPT !.walker = platform[2], !.rnd = stepped.rnd],
             ret |-> platform[3]]
        Stepped(stepped) ==
            IF stepped.ret[1] = "Err"
            THEN [map |-> stepped.map,
                  gen |-> [g EXCEPT !.walker = stepped.walker, !.rnd = stepped.rnd],
                  ret |-> stepped.ret]
            ELSE Platform(stepped,
                          check_platform(stepped.map, stepped.walker,
                                         config.platform_distance_bounds[1],
                                         config.platform_distance_bounds[2]))
        Mutated(mutated) == Stepped(probabilistic_step(m, mutated[1], config, mutated[2]))
    IN  IF validate(config)[1] = "Err"
        THEN [map |-> m, gen |-> g, ret |-> validate(config)]
        ELSE Mutated(mutate_kernel(g.walker, config, g.rnd))

\* Generator::step; returns [map, gen, ret]
step(m, g, config) ==
    LET Checked(checked) ==
            IF WalkerSteps(checked.walker)
            THEN StepBody(m, checked, config)
            ELSE [map |-> m, gen |-> checked, ret |-> <<"Ok", "unit">>]
    IN  IF is_goal_reached(g.walker, config.waypoint_reached_dist) = <<"Some", TRUE>>
        THEN Checked([g EXCEPT !.walker = next_waypoint(g.walker)])
        ELSE Checked(g)

\* Map::generate_room: the room of reserved tiles around pos, its wall, the
\* platform under pos and the zone tile at pos, all forced; an error when
\* the wall would leave the grid.  Returns <<map, ret>>
generate_room(m, pos, room_size, platform_margin, zone_type) ==
    IF \/ pos[1] < room_size + 1
       \/ pos[2] < room_size + 1
       \/ pos[1] + room_size + 1 >= m.w
       \/ pos[2] + room_size + 1 >= m.h
    THEN <<m, <<"Err", "generate room out of bounds">>>>
    ELSE LET top_left == shifted_by(pos, -room_size, -room_size)
             bot_right == shifted_by(pos, room_size, room_size)
             reach == room_size - platform_margin
             carved == set_area(m, top_left, bot_right, "EmptyReserved", "Force")
             walled == set_area_border(carved, shifted_by(top_left, -1, -1),
                                       shifted_by(bot_right, 1, 1), "Hookable", "Force")
             platform == set_area(walled, shifted_by(pos, -reach, 1), shifted_by(pos, reach, 1),
                                  "Platform", "Force")
         IN  <<set_area(platform, pos, pos, zone_type, "Force"), <<"Ok", "unit">>>>

\* post_processing up to fill_area; returns [map, ret], ret <<"Panic", message>>
\* when an expect meets an Err
PostFilled(m, g, config) ==
    LET Finish(finish) ==
            IF finish[2][1] = "Err"
            THEN [map |-> finish[1], ret |-> <<"Panic", "start finish room generation">>]
            ELSE [map |-> fill_open_areas(finish[1], config.max_distance_x2)[1],
                  ret |-> <<"Ok", "unit">>]
        Start(start) ==
            IF start[2][1] = "Err"
            THEN [map |-> start[1], ret |-> <<"Panic", "start room generation failed">>]
            ELSE Finish(generate_room(start[1], g.walker.pos, 4, 3, "Finish"))
        EdgeBugs(edge_bugs) ==
            IF edge_bugs[2][1] = "Err"
            THEN [map |-> edge_bugs[1], ret |-> <<"Panic", "fix edge bugs failed">>]
            ELSE Start(generate_room(edge_bugs[1], g.spawn, 4, 3, "Start"))
    IN  EdgeBugs(fix_edge_bugs(m))

\* Generator::post_processing: the outcomes [map, ret], one for every order
\* the sort of get_all_valid_skips may leave the skips in
post_processing(m, g, config) ==
    LET Skips(filled) ==
            IF filled.ret[1] = "Panic"
            THEN {filled}
            ELSE {[map |-> generate_all_skips(filled.map, skips,
                                              config.skip_min_spacing_sqr).map,
                   ret |-> filled.ret] :
                     skips \in SortedByLength(PossibleSkips(filled.map,
                                                            config.skip_length_bounds))}
    IN  Skips(PostFilled(m, g, config))

----------------------------------------------------------------------------
(* Configurations *)

\* the waypoint lists: the spawn itself, a neighbour of it, two waypoints
\* and a waypoint two cells away
WaypointLists ==
    {<<Spawn>>,
     <<Shifted(Spawn, "Right")>>,
     <<Spawn, Shifted(Spawn, "Left")>>,
     <<Shifted(Shifted(Spawn, "Up"), "Up")>>}

\* step distributions: the default weights 20, 11, 10, 9, always the best
\* direction, and one that does not sum to 1
StepWeights ==
    {[probs |-> <<20, 11, 10, 9>>, den |-> 50],
     [probs |-> <<1, 0, 0, 0>>, den |-> 1],
     [probs |-> <<1, 1, 1, 1>>, den |-> 2]}

Config(waypoints, step_weights, waypoint_reached_dist) ==
    [inner_size_bounds |-> <<3, 5>>,
     outer_size_bounds |-> <<5, 7>>,
     inner_rad_mut_prob |-> <<1, 4>>,
     inner_size_mut_prob |-> <<1, 2>>,
     outer_rad_mut_prob |-> <<1, 4>>,
     outer_size_mut_prob |-> <<1, 2>>,
     step_weights |-> step_weights,
     waypoints |-> waypoints,
     waypoint_reached_dist |-> waypoint_reached_dist,
     platform_distance_bounds |-> <<2, 4>>,
     max_distance_x2 |-> 3,
     skip_length_bounds |-> <<3, 6>>,
     skip_min_spacing_sqr |-> 4]

\* the configs a generator is made with: waypoints are present
NewConfigs ==
    {Config(waypoints, step_weights, waypoint_reached_dist) :
        waypoints \in WaypointLists, step_weights \in StepWeights,
        waypoint_reached_dist \in 0 .. 1}

\* the configs a step may be handed once the generator exists: the config
\* it was made with, or that config edited in the meantime, its waypoints
\* removed or its step distribution no longer normalized
StepConfigs(config) ==
    {config,
     [config EXCEPT !.waypoints = <<>>],
     [config EXCEPT !.step_weights = [probs |-> <<1, 1, 1, 1>>, den |-> 2]]}

----------------------------------------------------------------------------
(* A session of step calls on a new generator *)

InitStep ==
    \E config \in NewConfigs, seed \in 0 .. MaxSeed :
       LET new == GeneratorNew(config, seed)
       IN  /\ map = new.map
           /\ old = new.map
           /\ gen = [walker |-> new.walker, rnd |-> new.rnd, spawn |-> new.spawn,
                     config |-> config, pc |-> "session", max_steps |-> 0, done |-> 0,
                     ret |-> <<"None">>, post_runs |-> 0, late_steps |-> 0]
           /\ call = [name |-> "new"]
           /\ cfg = "none"

CallStep ==
    /\ gen.pc = "session"
    /\ \E config \in StepConfigs(gen.config) :
          \E r \in {step(map, gen, config)} :
              /\ r.gen.walker.steps <= MaxStepCount
              /\ map' = r.map
              /\ gen' = r.gen
              /\ call' = [name |-> "step", config |-> config, ret |-> r.ret, before |-> gen]
    /\ old' = map
    /\ UNCHANGED cfg

NextStep == CallStep

SpecStep == InitStep /\ [][NextStep]_vars

----------------------------------------------------------------------------
(* generate_map *)

InitGen ==
    \E config \in NewConfigs, seed \in 0 .. MaxSeed, max_steps \in 0 .. MaxStepCount :
       LET new == GeneratorNew(config, seed)
       IN  /\ map = new.map
           /\ old = new.map
           /\ gen = [walker |-> new.walker, rnd |-> new.rnd, spawn |-> new.spawn,
                     config |-> config, pc |-> "loop", max_steps |-> max_steps, done |-> 0,
                     ret |-> <<"None">>, post_runs |-> 0, late_steps |-> 0]
           /\ call = [name |-> "generate_map"]
           /\ cfg = "none"

\* one pass of the loop body: gen.step(config)?
GenStep ==
    /\ gen.pc = "loop"
    /\ gen.done < gen.max_steps
    /\ ~gen.walker.finished
    /\ \E r \in {step(map, gen, gen.config)} :
           /\ map' = r.map
           /\ gen' = IF r.ret[1] = "Err"
                     THEN [r.gen EXCEPT !.pc = "returned", !.ret = r.ret]
                     ELSE [r.gen EXCEPT !.done = gen.done + 1,
                                        !.late_steps = gen.late_steps
                                                         + (IF gen.post_runs > 0 THEN 1 ELSE 0)]
           /\ call' = [name |-> "step", config |-> gen.config, ret |-> r.ret, before |-> gen]
    /\ old' = map
    /\ UNCHANGED cfg

\* the loop is left: the range is exhausted or the walker is finished
GenLoopExit ==
    /\ gen.pc = "loop"
    /\ gen.done >= gen.max_steps \/ gen.walker.finished
    /\ gen' = [gen EXCEPT !.pc = "post"]
    /\ UNCHANGED <<map, old, call, cfg>>

\* gen.post_processing(config); Ok(gen.map)
GenPostProcessing ==
    /\ gen.pc = "post"
    /\ \E r \in post_processing(map, gen, gen.config) :
          /\ map' = r.map
          /\ gen' = [gen EXCEPT !.pc = IF r.ret[1] = "Panic" THEN "panicked" ELSE "returned",
                                !.ret = IF r.ret[1] = "Panic" THEN r.ret ELSE <<"Ok", "map">>,
                                !.post_runs = gen.post_runs + 1]
          /\ call' = [name |-> "post_processing", ret |-> r.ret, before |-> gen]
    /\ old' = map
    /\ UNCHANGED cfg

NextGen == GenStep \/ GenLoopExit \/ GenPostProcessing

SpecGen == InitGen /\ [][NextGen]_vars

----------------------------------------------------------------------------
(* Claims on the generator *)

(* C13: finished is an absorbing state of the walker: over any sequence of
   step calls in one session the finished flag never goes back from true to
   false, and a step call made while it is true leaves the walker (its
   position, both kernels, its waypoint index), the grid and the state of
   the random source unchanged. *)
C13_FinishedAbsorbing ==
    (call.name = "step" /\ call.before.walker.finished)
        => /\ gen.walker.finished
           /\ gen.walker = call.before.walker
           /\ gen.rnd = call.before.rnd
           /\ map = old

\* a step on a walker that walked, then finished, with a valid config
C13_Witness ==
    /\ call.name = "step"
    /\ call.before.walker.finished
    /\ call.before.walker.steps > 0
    /\ validate(call.config)[1] = "Ok"
    /\ gen.walker = call.before.walker

(* C14: every step call validates the config before anything else: with an
   invalid config (no waypoints, a step distribution that is not
   normalized) the call returns an error and has changed neither the
   waypoint index, the finished flag, the position, the kernels, the grid
   nor the random source. *)
C14_InvalidConfigChangesNothing ==
    (call.name = "step" /\ validate(call.config)[1] = "Err")
        => /\ call.ret[1] = "Err"
           /\ gen.walker = call.before.walker
           /\ gen.rnd = call.before.rnd
           /\ map = old

(* C15: no failure inside generate_map ends the process: a failing step
   makes generate_map return that error without post-processing having
   run, and a failure inside a post-processing pass is returned as an error
   as well, not raised as a panic. *)
C15_FailuresAreReturned ==
    /\ gen.pc # "panicked"
    /\ (call.name = "step" /\ call.ret[1] = "Err")
          => (gen.pc = "returned" /\ gen.ret = call.ret /\ gen.post_runs = 0)

(* C16: in every execution of generate_map post-processing runs at most
   once and only when the walker is finished (not, for instance, when
   max_steps ran out first), and no step is made after it has started. *)
C16_PostOnlyWhenFinished ==
    /\ gen.post_runs <= 1
    /\ gen.post_runs > 0 => gen.walker.finished
    /\ gen.late_steps = 0

====
